---- MODULE Spec2Model ----
(***************************************************************************)
(* Photo journal: the photo repository (src/src/lib/photos.ts) acting on   *)
(* the remote row store and object store (supabase/migrations), and the    *)
(* public feed that pages through it (src/src/pages/HomePage.tsx).         *)
(*                                                                         *)
(* Strings the code inspects (titles, captions, tags, file names, error    *)
(* messages) are sequences of one-character strings, so that trim,         *)
(* toLowerCase and the regular expressions are computed and not assumed.   *)
(* A nullable column holds NULL (the empty tuple) or a one-element tuple.  *)
(***************************************************************************)
EXTENDS Integers, Sequences, FiniteSets, TLC

VARIABLES
    rows,       \* public.photos: id -> row, for the ids that have a row
    objects,    \* the 'photos' bucket: the set of storage keys holding an object
    now,        \* the clock read by now(), Date.now() and new Date()
    nextId,     \* the next value gen_random_uuid() hands out as a row id
    issued,     \* Photo objects the caller holds: id -> image_path, kept after deletion
    uploads,    \* number of uploadPhoto calls started so far
    call,       \* the repository call that is suspended at an await, or Idle
    result,     \* what the last finished repository call returned or threw
    probe,      \* history: the row as it was before the latest softDelete/restore pair
    purged,     \* history: the keys whose object a permanentlyDeletePhoto call removed
    feed,       \* HomePage instance: its React state and observer
    fetches,    \* page fetches of HomePage effects that have not settled yet
    env,        \* import.meta.env: the two credentials the build was given
    requests,   \* history: the backend requests of the latest repository call, in order
    auth,       \* the client library's session: the signed-in user id or NULL
    admin,      \* AdminPage instance: its React state
    tasks       \* AdminPage handlers and reloads suspended at an await

vars == <<rows, objects, now, nextId, issued, uploads, call, result, probe, purged, feed, fetches,
          env, requests, auth, admin, tasks>>

repoVars == <<rows, objects, nextId, issued, uploads, call, result, probe, purged, requests>>
callerVars == <<issued, uploads, call, result, probe, purged, requests>>
feedVars == <<feed, fetches>>
adminVars == <<auth, admin, tasks>>

----------------------------------------------------------------------------
(* Bounds of the model *)

MaxUploads == 2
MaxClock == 1

----------------------------------------------------------------------------
(* Values *)

NULL == <<>>
Some(v) == <<v>>
IsNull(x) == x = NULL

Min(a, b) == IF a < b THEN a ELSE b
Max(a, b) == IF a > b THEN a ELSE b

Range(s) == {s[i] : i \in 1..Len(s)}

UpperCase == <<"A","B","C","D","E","F","G","H","I","J","K","L","M",
               "N","O","P","Q","R","S","T","U","V","W","X","Y","Z">>
LowerCase == <<"a","b","c","d","e","f","g","h","i","j","k","l","m",
               "n","o","p","q","r","s","t","u","v","w","x","y","z">>
Digits == {"0","1","2","3","4","5","6","7","8","9"}
WhiteSpace == {" ", "\t", "\n"}

\* String.prototype.toLowerCase, one character
lowerChar(c) ==
    IF \E i \in 1..26 : UpperCase[i] = c
    THEN LowerCase[CHOOSE i \in 1..26 : UpperCase[i] = c]
    ELSE c

toLowerCase(s) == [i \in 1..Len(s) |-> lowerChar(s[i])]

\* String.prototype.trim
RECURSIVE trimStart(_)
trimStart(s) ==
    IF s # <<>> /\ Head(s) \in WhiteSpace THEN trimStart(Tail(s)) ELSE s

RECURSIVE trimEnd(_)
trimEnd(s) ==
    IF s # <<>> /\ s[Len(s)] \in WhiteSpace
    THEN trimEnd(SubSeq(s, 1, Len(s) - 1))
    ELSE s

trim(s) == trimEnd(trimStart(s))

\* RegExp.prototype.test for a literal pattern: does pat occur in s
Contains(s, pat) ==
    \E i \in 1..(Len(s) - Len(pat) + 1) : SubSeq(s, i, i + Len(pat) - 1) = pat

----------------------------------------------------------------------------
(* Error messages the backend reports *)

MsgObjectNotFound == <<"O","b","j","e","c","t"," ","n","o","t"," ","f","o","u","n","d">>
MsgNotFoundCaps == <<"N","o","t"," ","F","o","u","n","d">>
MsgFetchFailed == <<"F","a","i","l","e","d"," ","t","o"," ","f","e","t","c","h">>
MsgNoRows == <<"n","o"," ","r","o","w","s"," ","r","e","t","u","r","n","e","d">>
MsgDuplicate == <<"d","u","p","l","i","c","a","t","e"," ","k","e","y">>
MsgExists == <<"a","l","r","e","a","d","y"," ","e","x","i","s","t","s">>

\* a request that does not reach the backend, or that its policies reject
TransportErrors == {MsgFetchFailed}
\* what the object store says of a key that holds no object
MissingObjectErrors == {MsgObjectNotFound, MsgNotFoundCaps}

----------------------------------------------------------------------------
(* src/lib/supabase.ts: the credentials and the client *)

\* what import.meta.env holds for a name: undefined, '' or a value
Credentials == {NULL, Some(<<>>), Some(<<"s","b">>)}

\* Boolean(v) of such a value
truthy(v) == v # NULL /\ v[1] # <<>>

isSupabaseConfigured == truthy(env.supabaseUrl) /\ truthy(env.supabaseAnonKey)

\* a build that was given both credentials
ConfiguredEnv == [supabaseUrl |-> Some(<<"s","b">>), supabaseAnonKey |-> Some(<<"s","b">>)]

\* what getSupabaseClient throws when isSupabaseConfigured is false
MsgNotConfigured ==
    <<"S","u","p","a","b","a","s","e"," ","i","s"," ","n","o","t"," ",
      "c","o","n","f","i","g","u","r","e","d",".">>

\* one backend request of a repository call and the error it reported
request(to, error) == [to |-> to, error |-> error]

----------------------------------------------------------------------------
(* src/src/lib/photos.ts: pure helpers *)

PHOTOS_BUCKET == "photos"

\* the characters the pattern /[^a-z0-9.\-_]+/ does not match
SafeChars == Range(LowerCase) \cup Digits \cup {".", "-", "_"}

\* replace(/[^a-z0-9.\-_]+/g, '-'): every maximal run of other characters
\* becomes one hyphen; inRun says the previous character was replaced
RECURSIVE replaceUnsafe(_, _)
replaceUnsafe(s, inRun) ==
    IF s = <<>> THEN <<>>
    ELSE IF Head(s) \in SafeChars THEN <<Head(s)>> \o replaceUnsafe(Tail(s), FALSE)
    ELSE IF inRun THEN replaceUnsafe(Tail(s), TRUE)
    ELSE <<"-">> \o replaceUnsafe(Tail(s), TRUE)

\* a sanitization that forgets toLowerCase()
sanitizeFilename_keepCase(filename) == replaceUnsafe(filename, FALSE)

sanitizeFilename(filename) == replaceUnsafe(toLowerCase(filename), FALSE)

\* `${userId}/${Date.now()}-${crypto.randomUUID()}-${sanitizeFilename(file.name)}`,
\* the three interpolated values as one item each
filePathText(filePath) ==
    <<filePath.owner, "/", filePath.ts, "-", filePath.token, "-">> \o filePath.name

\* tags.map((tag) => tag.trim()).filter(Boolean)
RECURSIVE trimTags(_)
trimTags(tags) ==
    IF tags = <<>> THEN <<>>
    ELSE IF trim(Head(tags)) = <<>> THEN trimTags(Tail(tags))
    ELSE <<trim(Head(tags))>> \o trimTags(Tail(tags))

\* a caption that is trimmed but never turned into null
cleanMetadata_emptyCaption(metadata) ==
    [title |-> trim(metadata.title),
     caption |-> Some(trim(metadata.caption)),
     tags |-> trimTags(metadata.tags),
     shot_date |-> metadata.shot_date]

\* a payload that carries deleted_at as well
cleanMetadata_withDeletedAt(metadata) ==
    [title |-> trim(metadata.title),
     caption |-> IF trim(metadata.caption) # <<>> THEN Some(trim(metadata.caption)) ELSE NULL,
     tags |-> trimTags(metadata.tags),
     shot_date |-> metadata.shot_date,
     deleted_at |-> NULL]

cleanMetadata(metadata) ==
    [title |-> trim(metadata.title),
     caption |-> IF trim(metadata.caption) # <<>> THEN Some(trim(metadata.caption)) ELSE NULL,
     tags |-> trimTags(metadata.tags),
     shot_date |-> metadata.shot_date]

\* storage.from(PHOTOS_BUCKET).getPublicUrl(path)
getPublicUrl(path) == [bucket |-> PHOTOS_BUCKET, path |-> path]

\* what a call of a method on null raises
TypeError == [raised |-> "TypeError"]

\* cleanMetadata given a value whose caption may be null: null.trim() raises
cleanMetadataOfStored(stored) ==
    IF stored.caption = NULL
    THEN TypeError
    ELSE cleanMetadata([title |-> stored.title, caption |-> stored.caption[1],
                        tags |-> stored.tags, shot_date |-> stored.shot_date])

mapPhotoRow(row) ==
    [id |-> row.id, title |-> row.title, caption |-> row.caption,
     tags |-> IF row.tags = NULL THEN <<>> ELSE row.tags,
     shot_date |-> row.shot_date, image_path |-> row.image_path,
     image_url |-> getPublicUrl(row.image_path),
     created_at |-> row.created_at, updated_at |-> row.updated_at,
     deleted_at |-> row.deleted_at]

\* /not found/i.test(message)
PatNotFound == <<"n","o","t"," ","f","o","u","n","d">>
\* the test without its i flag
notFoundTest_caseSensitive(message) == Contains(message, PatNotFound)

notFoundTest(message) == Contains(toLowerCase(message), PatNotFound)

----------------------------------------------------------------------------
(* The row store's answer to a select: filter, order, range *)

RECURSIVE ascending(_)
ascending(S) ==
    IF S = {} THEN <<>>
    ELSE LET m == CHOOSE x \in S : \A y \in S : x <= y
         IN <<m>> \o ascending(S \ {m})

Reverse(s) == [i \in 1..Len(s) |-> s[Len(s) + 1 - i]]

\* The order in which the table is scanned is not fixed by the query: rows
\* that the ORDER BY keys do not separate come out in scan order.
ScanOrders == {"forward", "backward"}
tableScan(table, scan) ==
    LET ids == ascending(DOMAIN table)
        seq == IF scan = "forward" THEN ids ELSE Reverse(ids)
    IN [i \in 1..Len(seq) |-> table[seq[i]]]

RECURSIVE keepRows(_, _)
keepRows(s, wanted) ==
    IF s = <<>> THEN <<>>
    ELSE IF s[1].id \in wanted THEN <<s[1]>> \o keepRows(Tail(s), wanted)
    ELSE keepRows(Tail(s), wanted)

\* the query without its second .order
comesBefore_shotDateOnly(a, b) == a.shot_date > b.shot_date

\* .order('shot_date', {ascending: false}).order('created_at', {ascending: false})
comesBefore(a, b) ==
    \/ a.shot_date > b.shot_date
    \/ a.shot_date = b.shot_date /\ a.created_at > b.created_at

RECURSIVE insertOrdered(_, _)
insertOrdered(r, s) ==
    IF s = <<>> THEN <<r>>
    ELSE IF comesBefore(r, Head(s)) THEN <<r>> \o s
    ELSE <<Head(s)>> \o insertOrdered(r, Tail(s))

RECURSIVE orderRows(_)
orderRows(s) ==
    IF s = <<>> THEN <<>>
    ELSE insertOrdered(s[Len(s)], orderRows(SubSeq(s, 1, Len(s) - 1)))

\* .range(from, to): zero-based, both ends included
rangeOf(s, from, to) == SubSeq(s, from + 1, Min(to + 1, Len(s)))

mapRows(s) == [i \in 1..Len(s) |-> mapPhotoRow(s[i])]

\* .is('deleted_at', null)
activeIds(table) == {i \in DOMAIN table : table[i].deleted_at = NULL}
\* .not('deleted_at', 'is', null)
trashIds(table) == {i \in DOMAIN table : table[i].deleted_at # NULL}

\* the query without .is('deleted_at', null)
fetchPublicPhotos_unfiltered(table, scan, from, to) ==
    mapRows(rangeOf(orderRows(tableScan(table, scan)), from, to))

fetchPublicPhotos(table, scan, from, to) ==
    mapRows(rangeOf(orderRows(keepRows(tableScan(table, scan), activeIds(table))), from, to))

fetchAdminPhotos(table, scan, mode) ==
    mapRows(orderRows(keepRows(tableScan(table, scan),
                                 IF mode = "active" THEN activeIds(table) ELSE trashIds(table))))

----------------------------------------------------------------------------
(* The remote data store (supabase/migrations/20260220_init.sql) *)

\* trigger set_photos_updated_at: before update, for each row
touch_updated_at(new) == [new EXCEPT !.updated_at = now]

\* insert into public.photos: id, created_at and updated_at take their defaults
insertedRow(payload, image_path) ==
    [id |-> nextId, title |-> payload.title, caption |-> payload.caption,
     tags |-> payload.tags, shot_date |-> payload.shot_date,
     image_path |-> image_path, created_at |-> now, updated_at |-> now,
     deleted_at |-> NULL]

\* the SET list of an update: the named columns take the given values
assign(row, set) == [c \in DOMAIN row |-> IF c \in DOMAIN set THEN set[c] ELSE row[c]]

\* an update that lacks its .eq('id', photoId) filter
updatedTable_allRows(photoId, set) ==
    [i \in DOMAIN rows |-> touch_updated_at(assign(rows[i], set))]

\* update public.photos set ... where id = photoId
updatedTable(photoId, set) ==
    [i \in DOMAIN rows |->
        IF i = photoId THEN touch_updated_at(assign(rows[i], set)) ELSE rows[i]]

\* delete from public.photos where id = photoId
deletedTable(photoId) == [i \in DOMAIN rows \ {photoId} |-> rows[i]]

\* storage remove([key]): what it may report, and the bucket afterwards
removeOutcomes(key) ==
    {[error |-> NULL, bucket |-> objects \ {key}]}
    \cup {[error |-> Some(m), bucket |-> objects] :
            m \in TransportErrors \cup (IF key \in objects THEN {} ELSE MissingObjectErrors)}

\* an upload with upsert: true
uploadOutcomes_upsert(key) ==
    {[error |-> NULL, bucket |-> objects \cup {key}]}
    \cup {[error |-> Some(m), bucket |-> objects] : m \in TransportErrors}

\* storage upload(key, file, {upsert: false})
uploadOutcomes(key) ==
    IF key \in objects
    THEN {[error |-> Some(m), bucket |-> objects] : m \in TransportErrors \cup {MsgExists}}
    ELSE {[error |-> NULL, bucket |-> objects \cup {key}]}
         \cup {[error |-> Some(m), bucket |-> objects] : m \in TransportErrors}

----------------------------------------------------------------------------
(* Inputs of the repository calls *)

UserIds == {"jesse"}
\* what crypto.randomUUID() returns
Tokens == {"0b9c"}
PhotoIds == 1..MaxUploads
ShotDates == {1, 2}

FileNames == { <<"A"," ","&","b",".","J","P","G">>, <<"a","-","b",".","j","p","g">> }

MetadataInputs ==
    { [title |-> <<" ","D","a","w","n"," ">>, caption |-> <<" "," ">>,
       tags |-> << <<" ","a"," ">>, <<>>, <<" ","b",",","b"," ">> >>, shot_date |-> 2],
      [title |-> <<"E","v","e">>, caption |-> <<"d","u","s","k","\n">>,
       tags |-> <<>>, shot_date |-> 1] }

Idle == [op |-> "idle"]
NoResult == [op |-> "none"]
NoProbe == [stage |-> "none"]

Returned(op, value) == [op |-> op, status |-> "returned", value |-> value]
Thrown(op, message) == [op |-> op, status |-> "thrown", message |-> message]

----------------------------------------------------------------------------
(* src/src/lib/photos.ts: uploadPhoto, one action per await *)

\* uploadPhoto that does not look at uploadError
uploadPhoto_upload_unchecked(file, metadata, userId, token) ==
    LET filePath == [owner |-> userId, ts |-> now, token |-> token,
                     name |-> sanitizeFilename(file)]
    IN /\ call = Idle
       /\ isSupabaseConfigured
       /\ uploads < MaxUploads
       /\ uploads' = uploads + 1
       /\ probe' = NoProbe
       /\ \E o \in uploadOutcomes(filePath) :
            /\ objects' = o.bucket
            /\ requests' = <<request("storage.upload", o.error)>>
            /\ result' = result
            /\ call' = [op |-> "uploadPhoto", at |-> "insert", file |-> file,
                        userId |-> userId, filePath |-> filePath,
                        payload |-> cleanMetadata(metadata)]
       /\ UNCHANGED <<rows, now, nextId, issued, purged, feedVars, adminVars, env>>

uploadPhoto_upload(file, metadata, userId, token) ==
    LET filePath == [owner |-> userId, ts |-> now, token |-> token,
                     name |-> sanitizeFilename(file)]
    IN /\ call = Idle
       /\ isSupabaseConfigured
       /\ uploads < MaxUploads
       /\ uploads' = uploads + 1
       /\ probe' = NoProbe
       /\ \E o \in uploadOutcomes(filePath) :
            /\ objects' = o.bucket
            /\ requests' = <<request("storage.upload", o.error)>>
            /\ IF o.error # NULL
               THEN /\ result' = Thrown("uploadPhoto", o.error[1])
                    /\ call' = Idle
               ELSE /\ result' = result
                    /\ call' = [op |-> "uploadPhoto", at |-> "insert", file |-> file,
                                userId |-> userId, filePath |-> filePath,
                                payload |-> cleanMetadata(metadata)]
       /\ UNCHANGED <<rows, now, nextId, issued, purged, feedVars, adminVars, env>>

uploadPhoto_insert ==
    /\ call.op = "uploadPhoto"
    /\ call.at = "insert"
    /\ \E error \in {NULL} \cup {Some(m) : m \in TransportErrors} :
         LET unique == \A i \in DOMAIN rows : rows[i].image_path # call.filePath
             row == insertedRow(call.payload, call.filePath)
             reported == IF error # NULL THEN error
                         ELSE IF unique THEN NULL ELSE Some(MsgDuplicate)
         IN /\ requests' = Append(requests, request("photos.insert", reported))
            /\ IF reported = NULL
               THEN /\ rows' = [i \in DOMAIN rows \cup {nextId} |->
                                  IF i = nextId THEN row ELSE rows[i]]
                    /\ nextId' = nextId + 1
                    /\ issued' = [i \in DOMAIN issued \cup {nextId} |->
                                    IF i = nextId THEN call.filePath ELSE issued[i]]
                    /\ result' = Returned("uploadPhoto", mapPhotoRow(row).id)
                    /\ call' = Idle
               ELSE /\ call' = [op |-> "uploadPhoto", at |-> "cleanup",
                                filePath |-> call.filePath, message |-> reported[1]]
                    /\ UNCHANGED <<rows, nextId, issued, result>>
    /\ UNCHANGED <<objects, now, uploads, probe, purged, feedVars, adminVars, env>>

\* a failed insert that throws without the compensating removal
uploadPhoto_cleanup_skipped ==
    /\ call.op = "uploadPhoto"
    /\ call.at = "cleanup"
    /\ result' = Thrown("uploadPhoto", call.message)
    /\ call' = Idle
    /\ UNCHANGED <<rows, objects, requests, now, nextId, issued, uploads, probe, purged,
                   feedVars, adminVars, env>>

\* if (error) { await remove([filePath]); throw new Error(error.message) }
uploadPhoto_cleanup ==
    /\ call.op = "uploadPhoto"
    /\ call.at = "cleanup"
    /\ \E o \in removeOutcomes(call.filePath) :
         /\ objects' = o.bucket
         /\ requests' = Append(requests, request("storage.remove", o.error))
    /\ result' = Thrown("uploadPhoto", call.message)
    /\ call' = Idle
    /\ UNCHANGED <<rows, now, nextId, issued, uploads, probe, purged, feedVars, adminVars, env>>

----------------------------------------------------------------------------
(* src/src/lib/photos.ts: updatePhotoMetadata, softDeletePhoto, restorePhoto *)

updatePhotoMetadata(photoId, metadata) ==
    LET payload == cleanMetadata(metadata)
    IN /\ call = Idle
       /\ isSupabaseConfigured
       /\ probe' = NoProbe
       /\ \E error \in {NULL} \cup {Some(m) : m \in TransportErrors} :
            IF error # NULL
            THEN /\ result' = Thrown("updatePhotoMetadata", error[1])
                 /\ requests' = <<request("photos.update", error)>>
                 /\ rows' = rows
            ELSE IF photoId \notin DOMAIN rows
            THEN \* .single() finds no row
                 /\ result' = Thrown("updatePhotoMetadata", MsgNoRows)
                 /\ requests' = <<request("photos.update", Some(MsgNoRows))>>
                 /\ rows' = rows
            ELSE /\ rows' = updatedTable(photoId, payload)
                 /\ requests' = <<request("photos.update", NULL)>>
                 /\ result' = Returned("updatePhotoMetadata", mapPhotoRow(rows'[photoId]).id)
       /\ UNCHANGED <<objects, now, nextId, issued, uploads, call, purged, feedVars, adminVars, env>>

\* a softDeletePhoto that flips deleted_at
softDeletePhoto_toggle(photoId) ==
    LET set == [deleted_at |-> IF photoId \in DOMAIN rows /\ rows[photoId].deleted_at # NULL
                               THEN NULL ELSE Some(now)]
    IN /\ call = Idle
       /\ isSupabaseConfigured
       /\ \E error \in {NULL} \cup {Some(m) : m \in TransportErrors} :
            IF error # NULL
            THEN /\ result' = Thrown("softDeletePhoto", error[1])
                 /\ requests' = <<request("photos.update", error)>>
                 /\ rows' = rows
                 /\ probe' = NoProbe
            ELSE /\ requests' = <<request("photos.update", NULL)>>
                 /\ rows' = updatedTable(photoId, set)
                 /\ result' = Returned("softDeletePhoto", photoId)
                 /\ probe' = IF photoId \in DOMAIN rows
                             THEN [stage |-> "deleted", id |-> photoId, before |-> rows[photoId]]
                             ELSE NoProbe
       /\ UNCHANGED <<objects, now, nextId, issued, uploads, call, purged, feedVars, adminVars, env>>

softDeletePhoto(photoId) ==
    LET set == [deleted_at |-> Some(now)]
    IN /\ call = Idle
       /\ isSupabaseConfigured
       /\ \E error \in {NULL} \cup {Some(m) : m \in TransportErrors} :
            IF error # NULL
            THEN /\ result' = Thrown("softDeletePhoto", error[1])
                 /\ requests' = <<request("photos.update", error)>>
                 /\ rows' = rows
                 /\ probe' = NoProbe
            ELSE /\ requests' = <<request("photos.update", NULL)>>
                 /\ rows' = updatedTable(photoId, set)
                 /\ result' = Returned("softDeletePhoto", photoId)
                 /\ probe' = IF photoId \in DOMAIN rows
                             THEN [stage |-> "deleted", id |-> photoId, before |-> rows[photoId]]
                             ELSE NoProbe
       /\ UNCHANGED <<objects, now, nextId, issued, uploads, call, purged, feedVars, adminVars, env>>

\* restorePhoto whose update names no column
restorePhoto_noColumn(photoId) ==
    /\ call = Idle
    /\ isSupabaseConfigured
    /\ \E error \in {NULL} \cup {Some(m) : m \in TransportErrors} :
         IF error # NULL
         THEN /\ result' = Thrown("restorePhoto", error[1])
              /\ requests' = <<request("photos.update", error)>>
              /\ rows' = rows
              /\ probe' = NoProbe
         ELSE /\ requests' = <<request("photos.update", NULL)>>
              /\ rows' = updatedTable(photoId, <<>>)
              /\ result' = Returned("restorePhoto", photoId)
              /\ probe' = IF probe.stage = "deleted" /\ probe.id = photoId
                          THEN [probe EXCEPT !.stage = "restored"]
                          ELSE NoProbe
    /\ UNCHANGED <<objects, now, nextId, issued, uploads, call, purged, feedVars, adminVars, env>>

restorePhoto(photoId) ==
    LET set == [deleted_at |-> NULL]
    IN /\ call = Idle
       /\ isSupabaseConfigured
       /\ \E error \in {NULL} \cup {Some(m) : m \in TransportErrors} :
            IF error # NULL
            THEN /\ result' = Thrown("restorePhoto", error[1])
                 /\ requests' = <<request("photos.update", error)>>
                 /\ rows' = rows
                 /\ probe' = NoProbe
            ELSE /\ requests' = <<request("photos.update", NULL)>>
                 /\ rows' = updatedTable(photoId, set)
                 /\ result' = Returned("restorePhoto", photoId)
                 /\ probe' = IF probe.stage = "deleted" /\ probe.id = photoId
                             THEN [probe EXCEPT !.stage = "restored"]
                             ELSE NoProbe
       /\ UNCHANGED <<objects, now, nextId, issued, uploads, call, purged, feedVars, adminVars, env>>

----------------------------------------------------------------------------
(* src/src/lib/photos.ts: permanentlyDeletePhoto, one action per await *)

\* permanentlyDeletePhoto whose test of storageError lost its negation
permanentlyDeletePhoto_remove_inverted(photoId) ==
    /\ call = Idle
    /\ isSupabaseConfigured
    /\ photoId \in DOMAIN issued
    /\ probe' = NoProbe
    /\ \E o \in removeOutcomes(issued[photoId]) :
         /\ objects' = o.bucket
         /\ requests' = <<request("storage.remove", o.error)>>
         /\ purged' = purged \cup (objects \ o.bucket)
         /\ IF o.error # NULL /\ notFoundTest(o.error[1])
            THEN /\ result' = Thrown("permanentlyDeletePhoto", o.error[1])
                 /\ call' = Idle
            ELSE /\ result' = result
                 /\ call' = [op |-> "permanentlyDeletePhoto", at |-> "delete", id |-> photoId,
                             storageError |-> o.error]
    /\ UNCHANGED <<rows, now, nextId, issued, uploads, feedVars, adminVars, env>>

\* permanentlyDeletePhoto that does not look at storageError
permanentlyDeletePhoto_remove_unchecked(photoId) ==
    /\ call = Idle
    /\ isSupabaseConfigured
    /\ photoId \in DOMAIN issued
    /\ probe' = NoProbe
    /\ \E o \in removeOutcomes(issued[photoId]) :
         /\ objects' = o.bucket
         /\ requests' = <<request("storage.remove", o.error)>>
         /\ purged' = purged \cup (objects \ o.bucket)
         /\ result' = result
         /\ call' = [op |-> "permanentlyDeletePhoto", at |-> "delete", id |-> photoId,
                     storageError |-> o.error]
    /\ UNCHANGED <<rows, now, nextId, issued, uploads, feedVars, adminVars, env>>

permanentlyDeletePhoto_remove(photoId) ==
    /\ call = Idle
    /\ isSupabaseConfigured
    /\ photoId \in DOMAIN issued
    /\ probe' = NoProbe
    /\ \E o \in removeOutcomes(issued[photoId]) :
         /\ objects' = o.bucket
         /\ requests' = <<request("storage.remove", o.error)>>
         /\ purged' = purged \cup (objects \ o.bucket)
         /\ IF o.error # NULL /\ ~notFoundTest(o.error[1])
            THEN /\ result' = Thrown("permanentlyDeletePhoto", o.error[1])
                 /\ call' = Idle
            ELSE /\ result' = result
                 /\ call' = [op |-> "permanentlyDeletePhoto", at |-> "delete", id |-> photoId,
                             storageError |-> o.error]
    /\ UNCHANGED <<rows, now, nextId, issued, uploads, feedVars, adminVars, env>>

permanentlyDeletePhoto_delete ==
    /\ call.op = "permanentlyDeletePhoto"
    /\ call.at = "delete"
    /\ \E error \in {NULL} \cup {Some(m) : m \in TransportErrors} :
         /\ requests' = Append(requests, request("photos.delete", error))
         /\ IF error # NULL
            THEN /\ result' = Thrown("permanentlyDeletePhoto", error[1])
                 /\ rows' = rows
            ELSE /\ rows' = deletedTable(call.id)
                 /\ result' = Returned("permanentlyDeletePhoto", call.id)
    /\ call' = Idle
    /\ UNCHANGED <<objects, now, nextId, issued, uploads, probe, purged, feedVars, adminVars, env>>

----------------------------------------------------------------------------
(* Time passes *)

Tick ==
    /\ now < MaxClock
    /\ now' = now + 1
    /\ UNCHANGED <<repoVars, feedVars, adminVars, env>>

----------------------------------------------------------------------------
(* The repository driven by one caller, one call at a time *)

NoFeed == [mounted |-> FALSE, mounts |-> 0]
NoAdmin == [mounted |-> FALSE, mounts |-> 0, events |-> 0]

Init ==
    /\ rows = <<>>
    /\ objects = {}
    /\ now = 0
    /\ nextId = 1
    /\ issued = <<>>
    /\ uploads = 0
    /\ call = Idle
    /\ result = NoResult
    /\ probe = NoProbe
    /\ purged = {}
    /\ feed = NoFeed
    /\ fetches = {}
    /\ env = ConfiguredEnv
    /\ requests = <<>>
    /\ auth = NULL
    /\ admin = NoAdmin
    /\ tasks = {}

Next ==
    \/ Tick
    \/ \E file \in FileNames, metadata \in MetadataInputs, userId \in UserIds, token \in Tokens :
         uploadPhoto_upload(file, metadata, userId, token)
    \/ uploadPhoto_insert
    \/ uploadPhoto_cleanup
    \/ \E photoId \in PhotoIds, metadata \in MetadataInputs : updatePhotoMetadata(photoId, metadata)
    \/ \E photoId \in PhotoIds : softDeletePhoto(photoId)
    \/ \E photoId \in PhotoIds : restorePhoto(photoId)
    \/ \E photoId \in PhotoIds : permanentlyDeletePhoto_remove(photoId)
    \/ permanentlyDeletePhoto_delete

Spec == Init /\ [][Next]_vars

----------------------------------------------------------------------------
(* Properties of the repository, checked under Spec *)

\* Steps are told apart by what they do to call and result: a call starts
\* from Idle and leaves its outcome in result when it ends. A step that is
\* neither the clock's nor the feed's, from Idle to Idle, is a whole call.
endsAtOnce(op) ==
    /\ call = Idle
    /\ call' = Idle
    /\ now' = now
    /\ feedVars' = feedVars
    /\ result'.op = op

\* C1: whenever uploadPhoto's insert has failed, the call leaves no object at
\* the key it generated, whatever the compensating removal reported.
C1_CleanupLeavesNoObject ==
    [][(call.op = "uploadPhoto" /\ call.at = "cleanup" /\ call' = Idle)
          => call.filePath \notin objects']_vars

\* C2 as stated: in every reachable state the image_path of every row names an
\* object that is in the bucket.
C2_EveryRowHasItsObject ==
    \A i \in DOMAIN rows : rows[i].image_path \in objects

\* C2: in every reachable state the image_path of every row names an object
\* that is in the bucket, unless a permanentlyDeletePhoto call has removed the
\* object at that key; no two rows share an image_path.
C2_RowLacksObjectOnlyAfterPurge ==
    /\ \A i \in DOMAIN rows : rows[i].image_path \in objects \/ rows[i].image_path \in purged
    /\ \A i, j \in DOMAIN rows : rows[i].image_path = rows[j].image_path => i = j

\* a failed permanent delete has left a row whose object is gone
C2_Witness ==
    /\ call = Idle
    /\ result.op = "permanentlyDeletePhoto"
    /\ result.status = "thrown"
    /\ \E i \in DOMAIN rows : rows[i].image_path \notin objects
    /\ \E i \in DOMAIN rows : rows[i].image_path \in objects /\ rows[i].deleted_at # NULL

\* C3: a removal step of permanentlyDeletePhoto that is told the object was
\* not found does not throw: the call throws at that step only for another
\* failure and otherwise goes on to the row delete for the same photo, and a
\* row delete that reports no error leaves no row with that id.
C3_NotFoundIsTolerated ==
    [][/\ endsAtOnce("permanentlyDeletePhoto") =>
            /\ result'.status = "thrown"
            /\ result'.message \notin MissingObjectErrors
       /\ (call = Idle /\ call'.op = "permanentlyDeletePhoto") =>
            /\ call'.at = "delete"
            /\ call'.id \in DOMAIN issued
            /\ objects' = objects \ {issued[call'.id]}
       /\ (call.op = "permanentlyDeletePhoto" /\ call' = Idle /\ result'.status = "returned") =>
            call.id \notin DOMAIN rows'
      ]_vars

\* the retry: the object is gone, the row is still there, not-found was
\* reported in either spelling and the call is about to delete the row
C3_Witness ==
    /\ call.op = "permanentlyDeletePhoto"
    /\ call.storageError = Some(MsgNotFoundCaps)
    /\ call.id \in DOMAIN rows
    /\ rows[call.id].image_path \notin objects

\* C4: a removal step of permanentlyDeletePhoto that fails with anything but
\* not-found throws that failure, and the row delete is not issued: the call
\* goes on to the row delete only with no failure or a not-found one, and a
\* call that ends at the removal step leaves every row as it was.
C4_OtherStorageFailureAborts ==
    [][/\ endsAtOnce("permanentlyDeletePhoto") =>
            /\ rows' = rows
            /\ result'.status = "thrown"
            /\ result'.message \in TransportErrors
       /\ (call = Idle /\ call'.op = "permanentlyDeletePhoto") =>
            \/ call'.storageError = NULL
            \/ call'.storageError[1] \in MissingObjectErrors
      ]_vars

\* the removal of an existing photo's object failed and the call has thrown
C4_Witness ==
    /\ call = Idle
    /\ result = Thrown("permanentlyDeletePhoto", MsgFetchFailed)
    /\ \E i \in DOMAIN rows : rows[i].image_path \in objects /\ rows[i].deleted_at # NULL

\* C5: fetchPublicPhotos and fetchAdminPhotos('active') return no photo whose
\* deleted_at is set, fetchAdminPhotos('trash') none whose deleted_at is null.
C5_ListsRespectTrash ==
    \A scan \in ScanOrders :
        /\ \A from \in 0..MaxUploads, to \in 0..MaxUploads :
             LET batch == fetchPublicPhotos(rows, scan, from, to)
             IN \A k \in 1..Len(batch) :
                  batch[k].deleted_at = NULL /\ rows[batch[k].id].deleted_at = NULL
        /\ LET active == fetchAdminPhotos(rows, scan, "active")
           IN \A k \in 1..Len(active) :
                active[k].deleted_at = NULL /\ rows[active[k].id].deleted_at = NULL
        /\ LET trash == fetchAdminPhotos(rows, scan, "trash")
           IN \A k \in 1..Len(trash) :
                trash[k].deleted_at # NULL /\ rows[trash[k].id].deleted_at # NULL

\* one photo is active and one is in the trash, and each list shows its own
C5_Witness ==
    /\ Len(fetchPublicPhotos(rows, "forward", 0, 8)) = 1
    /\ Len(fetchAdminPhotos(rows, "forward", "active")) = 1
    /\ Len(fetchAdminPhotos(rows, "forward", "trash")) = 1

sameExcept(a, b, columns) ==
    /\ DOMAIN a = DOMAIN b
    /\ \A c \in DOMAIN a \ columns : a[c] = b[c]

\* C6 as stated: softDeletePhoto(id) then restorePhoto(id) leaves the row as
\* it was except for updated_at, for an active and for a trashed photo.
C6_RoundTripAnyPhoto ==
    probe.stage = "restored" =>
        sameExcept(rows[probe.id], probe.before, {"updated_at"})

\* C6: softDeletePhoto(id) then restorePhoto(id) leaves an active photo's row
\* as it was except for updated_at; a photo that was in the trash comes out
\* active, its other columns except updated_at as they were.
C6_RoundTripActivePhoto ==
    probe.stage = "restored" =>
        /\ probe.id \in DOMAIN rows
        /\ rows[probe.id].deleted_at = NULL
        /\ sameExcept(rows[probe.id], probe.before, {"updated_at", "deleted_at"})
        /\ probe.before.deleted_at = NULL =>
             sameExcept(rows[probe.id], probe.before, {"updated_at"})

\* the pair was applied to an active photo at a later time than its last write
C6_Witness ==
    /\ probe.stage = "restored"
    /\ probe.before.deleted_at = NULL
    /\ rows[probe.id].updated_at # probe.before.updated_at

toggleStep == endsAtOnce("softDeletePhoto") \/ endsAtOnce("restorePhoto")

\* the rows after a step that wrote at most the given columns of row photoId
onlyColumnsChange(photoId, columns) ==
    /\ DOMAIN rows' = DOMAIN rows
    /\ \A i \in DOMAIN rows :
         IF i = photoId
         THEN sameExcept(rows'[i], rows[i], columns)
         ELSE rows'[i] = rows[i]

\* C7 as stated: softDeletePhoto and restorePhoto change nothing but the
\* deleted_at of the row they name, updated_at included.
C7_OnlyDeletedAtChanges ==
    [][toggleStep =>
          /\ objects' = objects
          /\ IF result'.status = "returned"
             THEN onlyColumnsChange(result'.value, {"deleted_at"})
             ELSE rows' = rows
      ]_vars

\* C7: softDeletePhoto and restorePhoto change only deleted_at, and through
\* the trigger updated_at, of the row they name; every other column of that
\* row, every other row and every object stay as they were.
C7_OnlyDeletedAtAndUpdatedAtChange ==
    [][toggleStep =>
          /\ objects' = objects
          /\ IF result'.status = "returned"
             THEN onlyColumnsChange(result'.value, {"deleted_at", "updated_at"})
             ELSE rows' = rows
      ]_vars

\* a soft delete took effect on one of two photos, after the clock had moved
C7_Witness ==
    /\ result.op = "softDeletePhoto"
    /\ result.status = "returned"
    /\ result.value \in DOMAIN rows
    /\ rows[result.value].deleted_at = Some(now)
    /\ rows[result.value].updated_at = now
    /\ rows[result.value].created_at < now
    /\ Cardinality(DOMAIN rows) = 2

\* C8: updatePhotoMetadata leaves image_path, deleted_at, id and created_at of
\* the row it names as they were, writes the cleaned title, caption, tags and
\* shot_date when it returns, and changes no other row and no object.
C8_UpdateKeepsPathAndTrash ==
    [][endsAtOnce("updatePhotoMetadata") =>
          /\ objects' = objects
          /\ IF result'.status = "returned"
             THEN /\ onlyColumnsChange(result'.value,
                                       {"title", "caption", "tags", "shot_date", "updated_at"})
                  /\ \E metadata \in MetadataInputs :
                       /\ rows'[result'.value].title = trim(metadata.title)
                       /\ rows'[result'.value].shot_date = metadata.shot_date
             ELSE rows' = rows
      ]_vars

\* a photo in the trash had its metadata replaced and is still in the trash
C8_Witness ==
    /\ result.op = "updatePhotoMetadata"
    /\ result.status = "returned"
    /\ rows[result.value].deleted_at # NULL
    /\ rows[result.value].updated_at > rows[result.value].created_at
    /\ rows[result.value].image_path \in objects

\* C11: an uploadPhoto whose upload fails throws that failure with the upload
\* as its only backend request: no row is inserted, no object is written or
\* removed; the call goes on to the insert only after an upload that put a
\* new object at a key that held none, so no existing object is overwritten.
C11_FailedUploadTouchesNothing ==
    [][/\ endsAtOnce("uploadPhoto") =>
            /\ result'.status = "thrown"
            /\ requests' = <<request("storage.upload", Some(result'.message))>>
            /\ rows' = rows
            /\ objects' = objects
            /\ nextId' = nextId
            /\ issued' = issued
       /\ (call = Idle /\ call'.op = "uploadPhoto") =>
            /\ requests' = <<request("storage.upload", NULL)>>
            /\ call'.filePath \notin objects
            /\ objects' = objects \cup {call'.filePath}
            /\ rows' = rows
      ]_vars

\* an upload was refused because the key holds the object of an existing row
C11_Witness ==
    /\ call = Idle
    /\ result = Thrown("uploadPhoto", MsgExists)
    /\ requests = <<request("storage.upload", Some(MsgExists))>>
    /\ \E i \in DOMAIN rows : rows[i].image_path \in objects

\* C12 as stated: when a repository call has ended, every failure the backend
\* reported to one of its requests is the failure the call has thrown, unless
\* it is a not-found failure of an object removal.
C12_EveryFailureIsRaised ==
    call = Idle =>
        \A k \in 1..Len(requests) :
            LET r == requests[k]
            IN (r.error # NULL /\ ~(r.to = "storage.remove" /\ r.error[1] \in MissingObjectErrors))
                 => /\ result.status = "thrown"
                    /\ result.message = r.error[1]

\* C13 as stated: updatePhotoMetadata, softDeletePhoto and restorePhoto return
\* only for an id that has a row; when they throw, rows and objects are as
\* they were.
C13_MissingRowIsSurfaced ==
    [][(toggleStep \/ endsAtOnce("updatePhotoMetadata")) =>
          /\ objects' = objects
          /\ IF result'.status = "returned"
             THEN result'.value \in DOMAIN rows
             ELSE rows' = rows
      ]_vars

allWhite(s) == \A i \in 1..Len(s) : s[i] \in WhiteSpace

\* t is s without the whitespace at its two ends
isTrimOf(t, s) ==
    \E a \in 0..Len(s) :
        /\ a + Len(t) <= Len(s)
        /\ SubSeq(s, a + 1, a + Len(t)) = t
        /\ allWhite(SubSeq(s, 1, a))
        /\ allWhite(SubSeq(s, a + Len(t) + 1, Len(s)))
        /\ t # <<>> => (t[1] \notin WhiteSpace /\ t[Len(t)] \notin WhiteSpace)

\* out holds the tags of in that are not blank, each trimmed, in the order of in
RECURSIVE isTagsOf(_, _)
isTagsOf(out, in) ==
    IF in = <<>> THEN out = <<>>
    ELSE IF allWhite(Head(in)) THEN isTagsOf(out, Tail(in))
    ELSE /\ out # <<>>
         /\ isTrimOf(Head(out), Head(in))
         /\ isTagsOf(Tail(out), Tail(in))

isNormalOf(stored, metadata) ==
    /\ isTrimOf(stored.title, metadata.title)
    /\ IF allWhite(metadata.caption)
       THEN stored.caption = NULL
       ELSE stored.caption # NULL /\ isTrimOf(stored.caption[1], metadata.caption)
    /\ isTagsOf(stored.tags, metadata.tags)
    /\ stored.shot_date = metadata.shot_date

metadataOf(row) ==
    [title |-> row.title, caption |-> row.caption, tags |-> row.tags, shot_date |-> row.shot_date]

\* the payloads the repository has stored or is about to store
storedMetadata ==
    {metadataOf(rows[i]) : i \in DOMAIN rows}
    \cup (IF call.op = "uploadPhoto" /\ call.at = "insert" THEN {call.payload} ELSE {})

Dawn == [title |-> <<" ","D","a","w","n"," ">>, caption |-> <<" "," ">>,
         tags |-> << <<" ","a"," ">>, <<>>, <<" ","b",",","b"," ">> >>, shot_date |-> 2]

normalizes ==
    /\ \A metadata \in MetadataInputs : isNormalOf(cleanMetadata(metadata), metadata)
    /\ \A stored \in storedMetadata : \E metadata \in MetadataInputs : isNormalOf(stored, metadata)
    /\ cleanMetadata(Dawn) = [title |-> <<"D","a","w","n">>, caption |-> NULL,
                              tags |-> << <<"a">>, <<"b",",","b">> >>, shot_date |-> 2]

\* C15 as stated: what uploadPhoto and updatePhotoMetadata store is the input
\* with title and caption trimmed, a blank caption as null, the tags trimmed
\* and the blank ones dropped, in order and unsplit; and cleanMetadata given
\* any payload it has produced returns that payload.
C15_NormalizationIsIdempotent ==
    /\ normalizes
    /\ \A stored \in storedMetadata : cleanMetadataOfStored(stored) = stored

\* C15: what uploadPhoto and updatePhotoMetadata store is the input with title
\* and caption trimmed, a blank caption as null, the tags trimmed and the blank
\* ones dropped, in order and unsplit; cleanMetadata given a payload it has
\* produced returns that payload when the caption is a string, and also when
\* a null caption is passed as the empty string; given a null caption it
\* raises a TypeError.
C15_NormalizationIdempotentOnStrings ==
    /\ normalizes
    /\ \A stored \in storedMetadata :
         /\ stored.caption # NULL => cleanMetadataOfStored(stored) = stored
         /\ stored.caption = NULL =>
              /\ cleanMetadataOfStored(stored) = TypeError
              /\ cleanMetadata([stored EXCEPT !.caption = <<>>]) = stored

\* both inputs are stored, the one whose caption became null and the one
\* whose caption was trimmed
C15_Witness ==
    /\ \E i \in DOMAIN rows :
         metadataOf(rows[i]) = [title |-> <<"D","a","w","n">>, caption |-> NULL,
                                tags |-> << <<"a">>, <<"b",",","b">> >>, shot_date |-> 2]
    /\ \E i \in DOMAIN rows : rows[i].caption = Some(<<"d","u","s","k">>)
    /\ result.op = "updatePhotoMetadata"
    /\ result.status = "returned"

\* C18: permanentlyDeletePhoto issues its row delete only after its removal
\* request, and only when that request reported no failure or a not-found
\* one; a row goes away only in that step, for the photo of the call, and the
\* object at its image_path is then not in the bucket; a call that ends at
\* the removal leaves every row.
C18_RowGoesAfterObject ==
    [][/\ (call.op = "permanentlyDeletePhoto" /\ call' = Idle) =>
            /\ Len(requests) = 1
            /\ requests[1].to = "storage.remove"
            /\ requests[1].error = NULL \/ requests[1].error[1] \in MissingObjectErrors
            /\ Len(requests') = 2
            /\ requests'[1] = requests[1]
            /\ requests'[2].to = "photos.delete"
            /\ issued[call.id] \notin objects
            /\ issued[call.id] \notin objects'
       /\ (DOMAIN rows \ DOMAIN rows' # {}) =>
            /\ call.op = "permanentlyDeletePhoto"
            /\ DOMAIN rows' = DOMAIN rows \ {call.id}
            /\ rows[call.id].image_path = issued[call.id]
       /\ endsAtOnce("permanentlyDeletePhoto") => rows' = rows
      ]_vars

\* a permanent delete has removed the object and then the row of one of two
\* photos; the other photo still has both
C18_Witness ==
    /\ call = Idle
    /\ result.op = "permanentlyDeletePhoto"
    /\ result.status = "returned"
    /\ requests = <<request("storage.remove", NULL), request("photos.delete", NULL)>>
    /\ result.value \notin DOMAIN rows
    /\ issued[result.value] \notin objects
    /\ \E i \in DOMAIN rows : rows[i].image_path \in objects

\* C20: softDeletePhoto on a photo that is already in the trash returns unless
\* the backend reports a failure, leaves deleted_at non-null, and changes
\* nothing but deleted_at and updated_at of that photo's row.
C20_SoftDeleteAgainStaysTrashed ==
    [][endsAtOnce("softDeletePhoto") =>
          /\ Len(requests') = 1
          /\ result'.status = "thrown" => requests'[1].error = Some(result'.message)
          /\ result'.status = "returned" => requests'[1].error = NULL
          /\ (result'.status = "returned" /\ result'.value \in DOMAIN rows
                /\ rows[result'.value].deleted_at # NULL) =>
                /\ rows'[result'.value].deleted_at # NULL
                /\ onlyColumnsChange(result'.value, {"deleted_at", "updated_at"})
                /\ objects' = objects
      ]_vars

\* a photo in the trash was soft-deleted again, later: it has a new timestamp
C20_Witness ==
    /\ probe.stage = "deleted"
    /\ result = Returned("softDeletePhoto", probe.id)
    /\ probe.before.deleted_at # NULL
    /\ rows[probe.id].deleted_at # NULL
    /\ rows[probe.id].deleted_at # probe.before.deleted_at

\* the objects no row refers to
orphans(table, bucket) ==
    {key \in bucket : \A i \in DOMAIN table : table[i].image_path # key}

\* the object of an uploadPhoto call that has not returned or thrown yet
uploading(c) == IF c.op = "uploadPhoto" THEN {c.filePath} ELSE {}

\* the step has issued an object removal and the removal reported an error
removalFails ==
    /\ requests' # requests
    /\ requests'[Len(requests')].to = "storage.remove"
    /\ requests'[Len(requests')].error # NULL

\* C28: a step of the repository whose object removal, if it issues one,
\* succeeds adds no orphaned object other than the object of the create call
\* in progress, and leaves that one neither orphaned nor unaccounted for when
\* the call completes; no object is referenced by two rows. So from an empty
\* store, while every removal succeeds, every object in the bucket between
\* calls is referenced by exactly one row.
C28_NoOrphanWhileRemovalsSucceed ==
    [][ /\ ~removalFails =>
             orphans(rows', objects') \subseteq
                (orphans(rows, objects) \ uploading(call)) \cup uploading(call')
        /\ \A i, j \in DOMAIN rows' :
              rows'[i].image_path = rows'[j].image_path => i = j
      ]_vars

\* a create whose insert failed and whose compensating removal succeeded has
\* completed, next to a stored photo, and the bucket holds no orphan
C28_Witness ==
    /\ call = Idle
    /\ result.op = "uploadPhoto"
    /\ result.status = "thrown"
    /\ Len(requests) = 3
    /\ requests[3] = request("storage.remove", NULL)
    /\ objects # {}
    /\ orphans(rows, objects) = {}

\* the file name lowercased, with every character outside [a-z0-9.-_] turned
\* into a hyphen of its own
perCharacter(filename) ==
    [i \in 1..Len(filename) |->
        IF lowerChar(filename[i]) \in SafeChars THEN lowerChar(filename[i]) ELSE "-"]

\* the places of a lowercased name that leave a character in the key: a
\* character of the set, or the first character of a run of others
keptPlaces(lowered) ==
    {i \in 1..Len(lowered) :
        lowered[i] \in SafeChars \/ i = 1 \/ lowered[i - 1] \in SafeChars}

\* name is lowered with each maximal run of characters outside the set
\* replaced by one hyphen
isRunsReplaced(name, lowered) ==
    /\ Len(name) = Cardinality(keptPlaces(lowered))
    /\ \A i \in keptPlaces(lowered) :
          name[Cardinality({j \in keptPlaces(lowered) : j <= i})] =
             IF lowered[i] \in SafeChars THEN lowered[i] ELSE "-"

\* the key is userId "/" timestamp "-" token "-" name, and name holds no "/"
isKeyOf(filePath, userId) ==
    LET text == filePathText(filePath)
    IN /\ text[1] = userId
       /\ text[2] = "/"
       /\ text[3] = filePath.ts
       /\ text[4] = "-"
       /\ text[5] = filePath.token
       /\ text[6] = "-"
       /\ SubSeq(text, 7, Len(text)) = filePath.name
       /\ Range(filePath.name) \subseteq SafeChars

\* C22 as stated: the file name part of the key create generates is the
\* original file name lowercased with each character outside [a-z0-9.-_]
\* replaced by one hyphen, and the key is owner id, timestamp, token and name.
C22_EachCharacterBecomesAHyphen ==
    (call.op = "uploadPhoto" /\ call.at = "insert") =>
        /\ call.filePath.name = perCharacter(call.file)
        /\ isKeyOf(call.filePath, call.userId)

\* C22, amended: the file name part of the key create generates is the
\* original file name lowercased with each maximal run of characters outside
\* [a-z0-9.-_] replaced by one hyphen; the key holds only the owner id, the
\* timestamp, the token and characters of that set, and its first path
\* segment is the owner id. The same holds of every key in the bucket.
C22_EachRunBecomesAHyphen ==
    /\ (call.op = "uploadPhoto" /\ call.at = "insert") =>
          /\ isRunsReplaced(call.filePath.name, toLowerCase(call.file))
          /\ isKeyOf(call.filePath, call.userId)
    /\ \A key \in objects : \E userId \in UserIds : isKeyOf(key, userId)

\* an upload of "A &b.JPG", whose space and ampersand make one run
C22_Witness ==
    /\ call.op = "uploadPhoto"
    /\ call.at = "insert"
    /\ call.file = <<"A"," ","&","b",".","J","P","G">>
    /\ call.filePath.name = <<"a","-","b",".","j","p","g">>
    /\ call.filePath \in objects

----------------------------------------------------------------------------
(* src/src/pages/HomePage.tsx: the public feed *)

PAGE_SIZE == 9

MaxMounts == 2
MaxFeedRows == 19

\* a rangeEnd that lacks its - 1
pageRange_endExclusive(page) ==
    [from |-> page * PAGE_SIZE, to |-> page * PAGE_SIZE + PAGE_SIZE]

\* rangeStart and rangeEnd of the page-fetch effect
pageRange(page) ==
    [from |-> page * PAGE_SIZE, to |-> page * PAGE_SIZE + PAGE_SIZE - 1]

\* useState initial values; the observer is the one of the sentinel effect
mountedFeed(mounts) ==
    [mounted |-> TRUE, mounts |-> mounts, photos |-> <<>>, page |-> 0, hasMore |-> TRUE,
     isLoading |-> FALSE, errorMessage |-> NULL, observing |-> FALSE]

\* cleanup of the page-fetch effect: cancelled = true in the closure of its run
cancelRun(fs, mounts) ==
    {IF f.mounts = mounts THEN [f EXCEPT !.cancelled = TRUE] ELSE f : f \in fs}

\* the page-fetch effect, run because hasMore or page changed (or on mount)
pageEffect(f) ==
    IF ~isSupabaseConfigured \/ ~f.hasMore
    THEN f
    ELSE [f EXCEPT !.isLoading = TRUE, !.errorMessage = NULL]

\* a page-fetch effect that does not look at isSupabaseConfigured
pageEffectFetches_unguarded(f) ==
    IF ~f.hasMore
    THEN {}
    ELSE {[mounts |-> f.mounts, page |-> f.page, from |-> pageRange(f.page).from,
           to |-> pageRange(f.page).to, cancelled |-> FALSE]}

pageEffectFetches(f) ==
    IF ~isSupabaseConfigured \/ ~f.hasMore
    THEN {}
    ELSE {[mounts |-> f.mounts, page |-> f.page, from |-> pageRange(f.page).from,
           to |-> pageRange(f.page).to, cancelled |-> FALSE]}

\* a sentinel effect that observes while a page is loading
sentinelEffect_whileLoading(f) ==
    [f EXCEPT !.observing =
        ~(~f.hasMore \/ Len(f.photos) = 0 \/ f.errorMessage # NULL)]

\* the sentinel effect: an observer is set up unless one of the four holds
sentinelEffect(f) ==
    [f EXCEPT !.observing =
        ~(~f.hasMore \/ f.isLoading \/ Len(f.photos) = 0 \/ f.errorMessage # NULL)]

Mount ==
    /\ ~feed.mounted
    /\ feed.mounts < MaxMounts
    /\ LET f == mountedFeed(feed.mounts + 1)
       IN /\ feed' = sentinelEffect(pageEffect(f))
          /\ fetches' = fetches \cup pageEffectFetches(f)
    /\ UNCHANGED <<repoVars, now, adminVars, env>>

Unmount ==
    /\ feed.mounted
    /\ feed' = [mounted |-> FALSE, mounts |-> feed.mounts]
    /\ fetches' = cancelRun(fetches, feed.mounts)
    /\ UNCHANGED <<repoVars, now, adminVars, env>>

\* the observer's callback with entries[0].isIntersecting
Intersect ==
    /\ feed.mounted
    /\ feed.observing
    /\ LET f == [feed EXCEPT !.observing = FALSE, !.page = feed.page + 1]
       IN /\ feed' = sentinelEffect(pageEffect(f))
          /\ fetches' = cancelRun(fetches, feed.mounts) \cup pageEffectFetches(f)
    /\ UNCHANGED <<repoVars, now, adminVars, env>>

\* a run that looks at whether the page is mounted, not at its cancelled flag
FetchReturns_mountedOnly ==
    \E fetch \in fetches, scan \in ScanOrders :
        LET nextBatch == fetchPublicPhotos(rows, scan, fetch.from, fetch.to)
        IN /\ fetches' = fetches \ {fetch}
           /\ feed' = IF ~feed.mounted THEN feed
                      ELSE sentinelEffect(
                               [feed EXCEPT !.photos = feed.photos \o nextBatch,
                                            !.hasMore = IF Len(nextBatch) < PAGE_SIZE THEN FALSE
                                                        ELSE feed.hasMore,
                                            !.isLoading = FALSE])
           /\ UNCHANGED <<repoVars, now, adminVars, env>>

\* await fetchPublicPhotos(rangeStart, rangeEnd) returns nextBatch
FetchReturns ==
    \E fetch \in fetches, scan \in ScanOrders :
        LET nextBatch == fetchPublicPhotos(rows, scan, fetch.from, fetch.to)
            applied == [feed EXCEPT !.photos = feed.photos \o nextBatch,
                                    !.hasMore = IF Len(nextBatch) < PAGE_SIZE THEN FALSE
                                                ELSE feed.hasMore,
                                    !.isLoading = FALSE]
        IN /\ fetches' = fetches \ {fetch}
           /\ feed' = IF fetch.cancelled THEN feed ELSE sentinelEffect(applied)
           /\ UNCHANGED <<repoVars, now, adminVars, env>>

\* await fetchPublicPhotos(rangeStart, rangeEnd) throws
FetchThrows ==
    \E fetch \in fetches, message \in TransportErrors :
        LET failed == [feed EXCEPT !.errorMessage = Some(message), !.isLoading = FALSE]
        IN /\ fetches' = fetches \ {fetch}
           /\ feed' = IF fetch.cancelled THEN feed ELSE sentinelEffect(failed)
           /\ UNCHANGED <<repoVars, now, adminVars, env>>

----------------------------------------------------------------------------
(* The feed paging through a store that does not change *)

FeedTitle == <<"D","a","w","n">>

\* a store of n photos, uploaded one after the other; in the "tied" layout
\* photos come in pairs that share shot_date and created_at
storedRow(i, n, layout, trashEvery) ==
    [id |-> i, title |-> FeedTitle, caption |-> NULL, tags |-> <<>>,
     shot_date |-> IF layout = "tied" THEN 1 ELSE i % 3,
     image_path |-> [owner |-> "jesse", ts |-> i, token |-> "0b9c", name |-> <<"a">>],
     created_at |-> IF layout = "tied" THEN (i + 1) \div 2 ELSE i,
     updated_at |-> IF trashEvery > 0 /\ i % trashEvery = 0 THEN n ELSE i,
     deleted_at |-> IF trashEvery > 0 /\ i % trashEvery = 0 THEN Some(n) ELSE NULL]

InitFeed ==
    \E n \in 0..MaxFeedRows, layout \in {"spread", "tied"}, trashEvery \in {0, 4} :
        /\ rows = [i \in 1..n |-> storedRow(i, n, layout, trashEvery)]
        /\ objects = {storedRow(i, n, layout, trashEvery).image_path : i \in 1..n}
        /\ now = n
        /\ nextId = n + 1
        /\ issued = [i \in 1..n |-> storedRow(i, n, layout, trashEvery).image_path]
        /\ uploads = n
        /\ call = Idle
        /\ result = NoResult
        /\ probe = NoProbe
        /\ purged = {}
        /\ feed = [mounted |-> FALSE, mounts |-> 0]
        /\ fetches = {}
        /\ env = ConfiguredEnv
        /\ requests = <<>>
        /\ auth = NULL
        /\ admin = NoAdmin
        /\ tasks = {}

NextFeed ==
    \/ Mount
    \/ Unmount
    \/ Intersect
    \/ FetchReturns
    \/ FetchThrows

SpecFeed == InitFeed /\ [][NextFeed]_vars

----------------------------------------------------------------------------
(* Properties of the feed, checked under SpecFeed *)

activeCount == Cardinality(activeIds(rows))

\* a step in which the feed applies the batch of the fetch it was waiting for
batchApplied ==
    /\ feed.mounted
    /\ feed'.mounted
    /\ feed'.mounts = feed.mounts
    /\ feed.isLoading
    /\ ~feed'.isLoading
    /\ feed'.errorMessage = NULL

\* C9: over N active photos that do not change, page k is requested as rows
\* 9k to 9k+8, its batch holds min(9, max(0, N - 9k)) photos, and hasMore
\* turns false exactly when a batch shorter than 9 is applied; with N = 9 page
\* 0 brings 9 photos and leaves hasMore true, page 1 brings none and clears it.
C9_PagesOfNine ==
    [][/\ \A f \in fetches' : f.from = 9 * f.page /\ f.to = 9 * f.page + 8
       /\ batchApplied =>
            LET got == Len(feed'.photos) - Len(feed.photos)
            IN /\ got = Min(9, Max(0, activeCount - 9 * feed.page))
               /\ feed.hasMore
               /\ feed'.hasMore = (got = 9)
               /\ feed'.page = feed.page
               /\ (activeCount = 9 /\ feed.page = 0) => (got = 9 /\ feed'.hasMore)
               /\ (activeCount = 9 /\ feed.page = 1) => (got = 0 /\ ~feed'.hasMore)
       /\ (feed.mounted /\ feed'.mounted /\ feed'.mounts = feed.mounts
             /\ feed'.hasMore # feed.hasMore) =>
            /\ batchApplied
            /\ Len(feed'.photos) - Len(feed.photos) < 9
      ]_vars

\* nine active photos: the second page came back empty and ended the feed
C9_Witness ==
    /\ activeCount = 9
    /\ feed.mounted
    /\ feed.page = 1
    /\ ~feed.isLoading
    /\ feed.errorMessage = NULL
    /\ ~feed.hasMore
    /\ Len(feed.photos) = 9

distinctPairs(table) ==
    \A i, j \in DOMAIN table :
        i # j => \/ table[i].shot_date # table[j].shot_date
                 \/ table[i].created_at # table[j].created_at

\* later shot_date first, and of two equal shot_dates the later created_at
inOrder(s) ==
    \A i, j \in 1..Len(s) :
        i < j => \/ s[i].shot_date > s[j].shot_date
                 \/ s[i].shot_date = s[j].shot_date /\ s[i].created_at > s[j].created_at

holdsExactly(s, ids) ==
    /\ {s[k].id : k \in 1..Len(s)} = ids
    /\ Len(s) = Cardinality(ids)

\* C10: when no two rows share both shot_date and created_at, fetchPublicPhotos
\* and fetchAdminPhotos return the rows they select ordered by shot_date
\* descending, then created_at descending, whatever the scan order, and the
\* pages the feed has put together are the beginning of that same order.
C10_ListsInShotDateOrder ==
    distinctPairs(rows) =>
        /\ \A scan \in ScanOrders :
             /\ inOrder(fetchPublicPhotos(rows, scan, 0, Cardinality(DOMAIN rows)))
             /\ holdsExactly(fetchPublicPhotos(rows, scan, 0, Cardinality(DOMAIN rows)),
                             activeIds(rows))
             /\ inOrder(fetchAdminPhotos(rows, scan, "active"))
             /\ holdsExactly(fetchAdminPhotos(rows, scan, "active"), activeIds(rows))
             /\ inOrder(fetchAdminPhotos(rows, scan, "trash"))
             /\ holdsExactly(fetchAdminPhotos(rows, scan, "trash"), trashIds(rows))
        /\ feed.mounted =>
             /\ inOrder(feed.photos)
             /\ feed.photos = SubSeq(fetchAdminPhotos(rows, "forward", "active"),
                                     1, Len(feed.photos))

\* two pages have been put together, out of id order, with photos in the trash
C10_Witness ==
    /\ distinctPairs(rows)
    /\ trashIds(rows) # {}
    /\ feed.mounted
    /\ Len(feed.photos) > 9
    /\ feed.photos[9].shot_date = feed.photos[10].shot_date
    /\ \E k \in 1..(Len(feed.photos) - 1) : feed.photos[k].id < feed.photos[k + 1].id

\* C17: when a page fetch settles after its effect was cleaned up (the page
\* was unmounted), the feed stays exactly as it is, whether the fetch returned
\* or threw; a fetch that is applied is the one of the mounted page's current
\* page number, it finds the pages before it in the feed, and the photos of
\* the feed change only by such a batch being appended.
C17_StaleResultIsDiscarded ==
    [][/\ \A f \in fetches :
            fetches' = fetches \ {f} =>
                IF f.cancelled
                THEN feed' = feed
                ELSE /\ feed.mounted
                     /\ feed.isLoading
                     /\ f.mounts = feed.mounts
                     /\ f.page = feed.page
                     /\ Len(feed.photos) = PAGE_SIZE * f.page
                     /\ feed'.page = feed.page
                     /\ SubSeq(feed'.photos, 1, Len(feed.photos)) = feed.photos
       /\ (feed.mounted /\ feed'.mounted /\ feed'.mounts = feed.mounts
             /\ feed'.photos # feed.photos) =>
            \E f \in fetches : ~f.cancelled /\ fetches' = fetches \ {f}
      ]_vars

\* the second page of a page that was unmounted is still in flight while the
\* page mounted after it has shown its first nine photos
C17_Witness ==
    /\ feed.mounted
    /\ feed.mounts = 2
    /\ feed.page = 0
    /\ ~feed.isLoading
    /\ Len(feed.photos) = 9
    /\ \E f \in fetches : f.cancelled /\ f.mounts = 1 /\ f.page = 1

\* the page fetches whose result would still be applied
outstanding(fs) == {f \in fs : ~f.cancelled}

\* C24: at most one page fetch that is not cancelled is outstanding; the page
\* counter of a mounted feed changes only by going up by one, and only when
\* nothing is loading, no fetch is outstanding, every page up to the current
\* one has been applied in full (so the feed holds a photo), hasMore is true
\* and no error is shown.
C24_OneFetchOnePageAtATime ==
    [][ /\ Cardinality(outstanding(fetches')) <= 1
        /\ (feed.mounted /\ feed'.mounted /\ feed'.mounts = feed.mounts
              /\ feed'.page # feed.page) =>
             /\ feed'.page = feed.page + 1
             /\ ~feed.isLoading
             /\ outstanding(fetches) = {}
             /\ Len(feed.photos) = PAGE_SIZE * (feed.page + 1)
             /\ Len(feed.photos) > 0
             /\ feed.hasMore
             /\ feed.errorMessage = NULL
      ]_vars

\* the third page is being fetched, two full pages are in the feed, and a
\* fetch of an earlier mount is still in flight, cancelled
C24_Witness ==
    /\ feed.mounted
    /\ feed.mounts = 2
    /\ feed.page = 2
    /\ feed.isLoading
    /\ Len(feed.photos) = 2 * PAGE_SIZE
    /\ Cardinality(outstanding(fetches)) = 1
    /\ Cardinality(fetches) = 2

----------------------------------------------------------------------------
(* The feed of a visitor who opens the page and stays *)

NextFeedLive ==
    \/ Mount
    \/ Intersect
    \/ FetchReturns
    \/ FetchThrows

\* the page is opened; the sentinel, once observed, comes to intersect (the
\* visitor scrolls, or the page is short); every page fetch settles
SpecFeedLive ==
    /\ InitFeed
    /\ [][NextFeedLive]_vars
    /\ WF_vars(Mount)
    /\ WF_vars(Intersect)
    /\ WF_vars(FetchThrows \/ FetchReturns)

\* C25: with a store in which the order of the photos is fixed, the feed of a
\* visitor who stays eventually has hasMore false and holds every active
\* photo, also when page fetches fail.
C25_FeedReachesExhaustion ==
    distinctPairs(rows) =>
        <>(/\ feed.mounted
           /\ ~feed.hasMore
           /\ {feed.photos[k].id : k \in 1..Len(feed.photos)} = activeIds(rows))

----------------------------------------------------------------------------
(* The feed paging through a store that the repository changes meanwhile *)

\* a store of ten photos, one more than a page, no two of which share
\* shot_date and created_at, all stored before now; one more upload may follow
InitFeedChanging ==
    \E n \in {PAGE_SIZE + 1}, trashEvery \in {0, 4} :
        /\ rows = [i \in 1..n |-> storedRow(i, n, "spread", trashEvery)]
        /\ objects = {storedRow(i, n, "spread", trashEvery).image_path : i \in 1..n}
        /\ now = n + 1
        /\ nextId = n + 1
        /\ issued = [i \in 1..n |-> storedRow(i, n, "spread", trashEvery).image_path]
        /\ uploads = MaxUploads - 1
        /\ call = Idle
        /\ result = NoResult
        /\ probe = NoProbe
        /\ purged = {}
        /\ feed = NoFeed
        /\ fetches = {}
        /\ env = ConfiguredEnv
        /\ requests = <<>>
        /\ auth = NULL
        /\ admin = NoAdmin
        /\ tasks = {}

NextFeedChanging ==
    \/ Mount
    \/ Unmount
    \/ Intersect
    \/ FetchReturns
    \/ FetchThrows
    \/ \E file \in FileNames, metadata \in MetadataInputs, userId \in UserIds, token \in Tokens :
         uploadPhoto_upload(file, metadata, userId, token)
    \/ uploadPhoto_insert
    \/ uploadPhoto_cleanup
    \/ \E photoId \in PhotoIds : softDeletePhoto(photoId)
    \/ \E photoId \in PhotoIds : restorePhoto(photoId)

SpecFeedChanging == InitFeedChanging /\ [][NextFeedChanging]_vars

\* the photos that were stored before the clock's present and that no call
\* of this specification names: they are active for as long as any paging lasts
activeThroughout ==
    {i \in DOMAIN rows \ PhotoIds : rows[i].created_at < now /\ rows[i].deleted_at = NULL}

\* C23: the feed holds no photo id twice, and once its paging has ended it
\* holds every photo that was active throughout, also when photos are
\* created, soft-deleted or restored between two of its page fetches.
C23_NoRepeatNoSkip ==
    feed.mounted =>
        /\ \A k, l \in 1..Len(feed.photos) :
              k # l => feed.photos[k].id # feed.photos[l].id
        /\ (~feed.hasMore /\ feed.errorMessage = NULL) =>
              activeThroughout \subseteq {feed.photos[k].id : k \in 1..Len(feed.photos)}

----------------------------------------------------------------------------
(* src/src/pages/AdminPage.tsx: the admin panel *)

MaxEvents == 3

\* value.split(',')
RECURSIVE split(_, _)
split(value, piece) ==
    IF value = <<>> THEN <<piece>>
    ELSE IF Head(value) = "," THEN <<piece>> \o split(Tail(value), <<>>)
    ELSE split(Tail(value), Append(piece, Head(value)))

\* value.split(',').map((tag) => tag.trim()).filter(Boolean)
parseTags(value) == trimTags(split(value, <<>>))

\* photo.tags.join(', ')
RECURSIVE join(_)
join(tags) ==
    IF tags = <<>> THEN <<>>
    ELSE IF Len(tags) = 1 THEN tags[1]
    ELSE tags[1] \o <<",", " ">> \o join(Tail(tags))

\* new Date().toISOString().slice(0, 10)
createEmptyPhotoForm == [title |-> <<>>, caption |-> <<>>, tags |-> <<>>, shotDate |-> now]

toMetadataInput(formState) ==
    [title |-> formState.title, caption |-> formState.caption,
     tags |-> parseTags(formState.tags), shot_date |-> formState.shotDate]

\* the form beginEdit fills in from a displayed photo
editFormOf(photo) ==
    [title |-> photo.title,
     caption |-> IF photo.caption = NULL THEN <<>> ELSE photo.caption[1],
     tags |-> join(photo.tags),
     shotDate |-> photo.shot_date]

\* what the admin may type into the title, caption and tags inputs of a form
TypedTexts ==
    { [title |-> <<" ">>, caption |-> <<>>, tags |-> <<" ",","," ">>],
      [title |-> <<" ","E","v","e">>, caption |-> <<"d","u","s","k">>,
       tags |-> <<"a",","," ","b"," ",",">>] }

typed(formState, text) ==
    [formState EXCEPT !.title = text.title, !.caption = text.caption, !.tags = text.tags]

\* useState initial values of AdminPage; events counts what the admin has done
\* (clicks, typed values, leaving the page) and failed records that a catch of
\* loadPhotos or of an upload, edit, trash, restore or delete handler has run
mountedAdmin(mounts, events) ==
    [mounted |-> TRUE, mounts |-> mounts, events |-> events,
     session |-> NULL, sessionReady |-> ~isSupabaseConfigured,
     authLoading |-> FALSE, authError |-> NULL,
     uploadForm |-> createEmptyPhotoForm, uploadFile |-> NULL, fileInput |-> NULL,
     uploadBusy |-> FALSE, uploadError |-> NULL,
     activePhotos |-> <<>>, trashPhotos |-> <<>>,
     photosBusy |-> FALSE, photosError |-> NULL,
     editingId |-> NULL, editForm |-> createEmptyPhotoForm,
     actionPhotoId |-> NULL, failed |-> FALSE]

\* Boolean(session?.user)
isAuthenticated(a) == a.session # NULL

\* which of the three screens AdminPage renders
screen(a) ==
    IF ~a.mounted THEN "none"
    ELSE IF ~isSupabaseConfigured THEN "unconfigured"
    ELSE IF ~a.sessionReady THEN "checking"
    ELSE IF ~isAuthenticated(a) THEN "login"
    ELSE "dashboard"

\* a setState of a task reaches the page only while the instance that started it is mounted
live(t) == admin.mounted /\ admin.mounts = t.mounts

Sent == [state |-> "sent"]
Answered(value) == [state |-> "answered", value |-> value]
Failed(message) == [state |-> "failed", message |-> message]

\* loadPhotos as called from a render whose session is t.session: the page
\* after its first statements, and the task waiting on Promise.all
loadPhotos_page(a, t) ==
    IF t.session = NULL THEN a ELSE [a EXCEPT !.photosBusy = TRUE, !.photosError = NULL]

loadPhotos_task(t) ==
    IF t.session = NULL THEN {}
    ELSE {[id |-> t.id, mounts |-> t.mounts, handler |-> t.handler, at |-> "loadPhotos",
           session |-> t.session, active |-> Sent, trash |-> Sent]}

\* the finally of the handler that awaited loadPhotos
handlerFinally(a, handler) ==
    IF handler = "handleUpload" THEN [a EXCEPT !.uploadBusy = FALSE]
    ELSE IF handler = "effect" THEN a
    ELSE [a EXCEPT !.actionPhotoId = NULL]

\* await loadPhotos() and what follows it in the handler of task t, from page a
awaitLoadPhotos_page(a, t) ==
    IF t.session = NULL THEN handlerFinally(a, t.handler) ELSE loadPhotos_page(a, t)

\* the effect on [isAuthenticated, loadPhotos], run after the session was set to s
sessionEffect_page(a) ==
    IF isAuthenticated(a)
    THEN [a EXCEPT !.photosBusy = TRUE, !.photosError = NULL]
    ELSE [a EXCEPT !.activePhotos = <<>>, !.trashPhotos = <<>>]

sessionEffect_task(a) ==
    IF isAuthenticated(a)
    THEN {[id |-> a.events, mounts |-> a.mounts, handler |-> "effect", at |-> "loadPhotos",
           session |-> a.session, active |-> Sent, trash |-> Sent]}
    ELSE {}

\* setSession(s); setSessionReady(true), and the effect only if the session changed
setSession_page(a, s) ==
    LET b == [a EXCEPT !.session = s, !.sessionReady = TRUE]
    IN IF s = a.session THEN b ELSE sessionEffect_page(b)

setSession_task(a, s) ==
    IF s = a.session THEN {} ELSE sessionEffect_task([a EXCEPT !.session = s])

\* a click or keystroke of the admin on the rendered page
userEvent(a) == [a EXCEPT !.events = a.events + 1]

AdminMount ==
    /\ ~admin.mounted
    /\ admin.mounts < MaxMounts
    /\ LET a == mountedAdmin(admin.mounts + 1, admin.events)
       IN /\ admin' = a
          /\ tasks' = tasks \cup
                (IF isSupabaseConfigured
                 THEN {[id |-> a.events, mounts |-> a.mounts, handler |-> "effect",
                        at |-> "getSession"]}
                 ELSE {})
    /\ UNCHANGED <<repoVars, now, feedVars, env, auth>>

\* the user leaves /admin
AdminUnmount ==
    /\ admin.mounted
    /\ admin.events < MaxEvents
    /\ admin' = [mounted |-> FALSE, mounts |-> admin.mounts, events |-> admin.events + 1]
    /\ UNCHANGED <<repoVars, now, feedVars, env, auth, tasks>>

\* client.auth.getSession().then(({ data }) => { setSession(...); setSessionReady(true) })
getSession_then ==
    \E t \in tasks :
        /\ t.at = "getSession"
        /\ admin' = IF live(t) THEN setSession_page(admin, auth) ELSE admin
        /\ tasks' = (tasks \ {t}) \cup (IF live(t) THEN setSession_task(admin, auth) ELSE {})
        /\ UNCHANGED <<repoVars, now, feedVars, env, auth>>

MsgInvalidLogin == <<"I","n","v","a","l","i","d"," ","l","o","g","i","n">>

handleLogin ==
    /\ screen(admin) = "login"
    /\ ~admin.authLoading
    /\ admin.events < MaxEvents
    /\ IF ~isSupabaseConfigured
       THEN /\ admin' = userEvent(admin)
            /\ tasks' = tasks
       ELSE /\ admin' = [userEvent(admin) EXCEPT !.authLoading = TRUE, !.authError = NULL]
            /\ tasks' = tasks \cup {[id |-> admin.events + 1, mounts |-> admin.mounts,
                                     handler |-> "handleLogin", at |-> "signInWithPassword"]}
    /\ UNCHANGED <<repoVars, now, feedVars, env, auth>>

\* signInWithPassword settles; on success the onAuthStateChange callback of the
\* mounted page runs first
handleLogin_signIn ==
    \E t \in tasks, userId \in UserIds, error \in {NULL, Some(MsgInvalidLogin)} :
        /\ t.at = "signInWithPassword"
        /\ IF error # NULL
           THEN /\ auth' = auth
                /\ tasks' = tasks \ {t}
                /\ admin' = IF live(t)
                            THEN [admin EXCEPT !.authError = error, !.authLoading = FALSE]
                            ELSE admin
           ELSE /\ auth' = Some(userId)
                /\ tasks' = (tasks \ {t}) \cup
                      (IF admin.mounted THEN setSession_task(admin, Some(userId)) ELSE {})
                /\ admin' = LET a == IF admin.mounted THEN setSession_page(admin, Some(userId))
                                     ELSE admin
                            IN IF live(t) THEN [a EXCEPT !.authLoading = FALSE] ELSE a
        /\ UNCHANGED <<repoVars, now, feedVars, env>>

handleLogout ==
    /\ screen(admin) = "dashboard"
    /\ admin.events < MaxEvents
    /\ admin' = userEvent(admin)
    /\ tasks' = tasks \cup
          (IF ~isSupabaseConfigured THEN {}
           ELSE {[id |-> admin.events + 1, mounts |-> admin.mounts,
                  handler |-> "handleLogout", at |-> "signOut"]})
    /\ UNCHANGED <<repoVars, now, feedVars, env, auth>>

\* signOut settles: the session is gone and the mounted page is told
handleLogout_signOut ==
    \E t \in tasks :
        /\ t.at = "signOut"
        /\ auth' = NULL
        /\ tasks' = (tasks \ {t}) \cup (IF admin.mounted THEN setSession_task(admin, NULL) ELSE {})
        /\ admin' = IF admin.mounted THEN setSession_page(admin, NULL) ELSE admin
        /\ UNCHANGED <<repoVars, now, feedVars, env>>

----------------------------------------------------------------------------
(* loadPhotos: the two queries of Promise.all *)

\* the backend answers one of the two queries of a reload
loadPhotos_query ==
    \E t \in tasks, mode \in {"active", "trash"}, scan \in ScanOrders,
       error \in {NULL} \cup {Some(m) : m \in TransportErrors} :
        /\ t.at = "loadPhotos"
        /\ t[mode] = Sent
        /\ tasks' = (tasks \ {t}) \cup
              {[t EXCEPT ![mode] = IF error # NULL THEN Failed(error[1])
                                   ELSE Answered(fetchAdminPhotos(rows, scan, mode))]}
        /\ UNCHANGED <<repoVars, now, feedVars, env, auth, admin>>

\* Promise.all is fulfilled: setActivePhotos, setTrashPhotos, the finally of
\* loadPhotos and the finally of the handler that awaited it
loadPhotos_fulfilled ==
    \E t \in tasks :
        /\ t.at = "loadPhotos"
        /\ t.active.state = "answered"
        /\ t.trash.state = "answered"
        /\ tasks' = tasks \ {t}
        /\ admin' = IF live(t)
                    THEN handlerFinally([admin EXCEPT !.activePhotos = t.active.value,
                                                      !.trashPhotos = t.trash.value,
                                                      !.photosBusy = FALSE],
                                        t.handler)
                    ELSE admin
        /\ UNCHANGED <<repoVars, now, feedVars, env, auth>>

\* a reload that shows whichever list did arrive when the other query failed
loadPhotos_rejected_partial ==
    \E t \in tasks, mode \in {"active", "trash"} :
        /\ t.at = "loadPhotos"
        /\ t[mode].state = "failed"
        /\ tasks' = tasks \ {t}
        /\ admin' = IF live(t)
                    THEN handlerFinally(
                             [admin EXCEPT
                                 !.activePhotos = IF t.active.state = "answered"
                                                  THEN t.active.value ELSE @,
                                 !.trashPhotos = IF t.trash.state = "answered"
                                                 THEN t.trash.value ELSE @,
                                 !.photosError = Some(t[mode].message), !.failed = TRUE,
                                 !.photosBusy = FALSE],
                             t.handler)
                    ELSE admin
        /\ UNCHANGED <<repoVars, now, feedVars, env, auth>>

\* Promise.all is rejected by the first query that fails: setPhotosError
loadPhotos_rejected ==
    \E t \in tasks, mode \in {"active", "trash"} :
        /\ t.at = "loadPhotos"
        /\ t[mode].state = "failed"
        /\ tasks' = tasks \ {t}
        /\ admin' = IF live(t)
                    THEN handlerFinally([admin EXCEPT !.photosError = Some(t[mode].message),
                                                      !.failed = TRUE,
                                                      !.photosBusy = FALSE],
                                        t.handler)
                    ELSE admin
        /\ UNCHANGED <<repoVars, now, feedVars, env, auth>>

----------------------------------------------------------------------------
(* The upload form *)

\* onChange of the title, caption and tags inputs of the upload form
typeUploadForm(text) ==
    /\ screen(admin) = "dashboard"
    /\ admin.events < MaxEvents
    /\ admin' = [userEvent(admin) EXCEPT !.uploadForm = typed(admin.uploadForm, text)]
    /\ UNCHANGED <<repoVars, now, feedVars, env, auth, tasks>>

\* onChange of the file input
chooseFile(file) ==
    /\ screen(admin) = "dashboard"
    /\ admin.events < MaxEvents
    /\ admin' = [userEvent(admin) EXCEPT !.uploadFile = Some(file), !.fileInput = Some(file)]
    /\ UNCHANGED <<repoVars, now, feedVars, env, auth, tasks>>

\* the browser submits the form only when its required inputs have a value; the
\* file input is not a controlled one, so setUploadFile(null) leaves it filled
uploadFormValid(a) == a.fileInput # NULL /\ a.uploadForm.title # <<>>

MsgLogInFirst ==
    <<"L","o","g"," ","i","n"," ","b","e","f","o","r","e"," ","u","p","l","o","a","d","i","n","g"," ","p","h","o","t","o","s",".">>
MsgChooseFile ==
    <<"C","h","o","o","s","e"," ","a","n"," ","i","m","a","g","e"," ","f","i","l","e"," ","f","i","r","s","t",".">>

handleUpload(token) ==
    /\ screen(admin) = "dashboard"
    /\ ~admin.uploadBusy
    /\ uploadFormValid(admin)
    /\ admin.events < MaxEvents
    /\ IF admin.session = NULL
       THEN /\ admin' = [userEvent(admin) EXCEPT !.uploadError = Some(MsgLogInFirst)]
            /\ tasks' = tasks
       ELSE IF admin.uploadFile = NULL
       THEN /\ admin' = [userEvent(admin) EXCEPT !.uploadError = Some(MsgChooseFile)]
            /\ tasks' = tasks
       ELSE /\ admin' = [userEvent(admin) EXCEPT !.uploadBusy = TRUE, !.uploadError = NULL]
            /\ tasks' = tasks \cup
                  {[id |-> admin.events + 1, mounts |-> admin.mounts,
                    handler |-> "handleUpload", at |-> "upload", session |-> admin.session,
                    filePath |-> [owner |-> admin.session[1], ts |-> now, token |-> token,
                                  name |-> sanitizeFilename(admin.uploadFile[1])],
                    payload |-> cleanMetadata(toMetadataInput(admin.uploadForm))]}
    /\ UNCHANGED <<repoVars, now, feedVars, env, auth>>

\* catch and finally of handleUpload
handleUpload_catch(a, message) ==
    [a EXCEPT !.uploadError = Some(message), !.uploadBusy = FALSE, !.failed = TRUE]

\* uploadPhoto: the upload settles
handleUpload_upload ==
    \E t \in tasks :
        /\ t.at = "upload"
        /\ \E o \in uploadOutcomes(t.filePath) :
             /\ objects' = o.bucket
             /\ IF o.error # NULL
                THEN /\ tasks' = tasks \ {t}
                     /\ admin' = IF live(t) THEN handleUpload_catch(admin, o.error[1]) ELSE admin
                ELSE /\ tasks' = (tasks \ {t}) \cup {[t EXCEPT !.at = "insert"]}
                     /\ admin' = admin
        /\ UNCHANGED <<rows, nextId, callerVars, now, feedVars, env, auth>>

\* uploadPhoto: the insert settles; then the form is reset and loadPhotos awaited
handleUpload_insert ==
    \E t \in tasks, error \in {NULL} \cup {Some(m) : m \in TransportErrors} :
        /\ t.at = "insert"
        /\ LET unique == \A i \in DOMAIN rows : rows[i].image_path # t.filePath
               row == insertedRow(t.payload, t.filePath)
               reported == IF error # NULL THEN error
                           ELSE IF unique THEN NULL ELSE Some(MsgDuplicate)
           IN IF reported = NULL
              THEN /\ rows' = [i \in DOMAIN rows \cup {nextId} |->
                                 IF i = nextId THEN row ELSE rows[i]]
                   /\ nextId' = nextId + 1
                   /\ tasks' = (tasks \ {t}) \cup loadPhotos_task(t)
                   /\ admin' = IF live(t)
                               THEN awaitLoadPhotos_page(
                                        [admin EXCEPT !.uploadForm = createEmptyPhotoForm,
                                                      !.uploadFile = NULL], t)
                               ELSE admin
              ELSE /\ tasks' = (tasks \ {t}) \cup
                          {[id |-> t.id, mounts |-> t.mounts, handler |-> t.handler,
                            at |-> "cleanup", filePath |-> t.filePath, message |-> reported[1]]}
                   /\ UNCHANGED <<rows, nextId, admin>>
        /\ UNCHANGED <<objects, callerVars, now, feedVars, env, auth>>

\* uploadPhoto: the compensating removal settles and the insert's error is thrown
handleUpload_cleanup ==
    \E t \in tasks :
        /\ t.at = "cleanup"
        /\ \E o \in removeOutcomes(t.filePath) : objects' = o.bucket
        /\ tasks' = tasks \ {t}
        /\ admin' = IF live(t) THEN handleUpload_catch(admin, t.message) ELSE admin
        /\ UNCHANGED <<rows, nextId, callerVars, now, feedVars, env, auth>>

----------------------------------------------------------------------------
(* The photo lists: edit, move to trash, restore, delete forever *)

shown(list, photoId) == \E k \in 1..Len(list) : list[k].id = photoId
shownPhoto(list, photoId) == list[CHOOSE k \in 1..Len(list) : list[k].id = photoId]

\* disabled={actionPhotoId === photo.id}
enabled(a, photoId) == a.actionPhotoId # Some(photoId)

beginEdit(photoId) ==
    /\ screen(admin) = "dashboard"
    /\ shown(admin.activePhotos, photoId)
    /\ admin.editingId # Some(photoId)
    /\ admin.events < MaxEvents
    /\ admin' = [userEvent(admin) EXCEPT
                    !.editingId = Some(photoId),
                    !.editForm = editFormOf(shownPhoto(admin.activePhotos, photoId))]
    /\ UNCHANGED <<repoVars, now, feedVars, env, auth, tasks>>

\* the Cancel button: () => setEditingId(null)
cancelEdit ==
    /\ screen(admin) = "dashboard"
    /\ admin.editingId # NULL
    /\ shown(admin.activePhotos, admin.editingId[1])
    /\ admin.events < MaxEvents
    /\ admin' = [userEvent(admin) EXCEPT !.editingId = NULL]
    /\ UNCHANGED <<repoVars, now, feedVars, env, auth, tasks>>

\* onChange of the title, caption and tags inputs of the edit form
typeEditForm(text) ==
    /\ screen(admin) = "dashboard"
    /\ admin.editingId # NULL
    /\ shown(admin.activePhotos, admin.editingId[1])
    /\ admin.events < MaxEvents
    /\ admin' = [userEvent(admin) EXCEPT !.editForm = typed(admin.editForm, text)]
    /\ UNCHANGED <<repoVars, now, feedVars, env, auth, tasks>>

\* catch and finally of saveEdit, handleSoftDelete, handleRestore, handlePermanentDelete
action_catch(a, message) ==
    [a EXCEPT !.photosError = Some(message), !.actionPhotoId = NULL, !.failed = TRUE]

saveEdit ==
    /\ screen(admin) = "dashboard"
    /\ admin.editingId # NULL
    /\ shown(admin.activePhotos, admin.editingId[1])
    /\ enabled(admin, admin.editingId[1])
    /\ admin.events < MaxEvents
    /\ admin' = [userEvent(admin) EXCEPT !.actionPhotoId = admin.editingId]
    /\ tasks' = tasks \cup
          {[id |-> admin.events + 1, mounts |-> admin.mounts, handler |-> "saveEdit",
            at |-> "update", session |-> admin.session, photoId |-> admin.editingId[1],
            payload |-> cleanMetadata(toMetadataInput(admin.editForm))]}
    /\ UNCHANGED <<repoVars, now, feedVars, env, auth>>

\* updatePhotoMetadata settles; then setEditingId(null) and loadPhotos awaited
saveEdit_update ==
    \E t \in tasks, error \in {NULL} \cup {Some(m) : m \in TransportErrors} :
        /\ t.at = "update"
        /\ LET reported == IF error # NULL THEN error
                           ELSE IF t.photoId \in DOMAIN rows THEN NULL ELSE Some(MsgNoRows)
           IN IF reported # NULL
              THEN /\ rows' = rows
                   /\ tasks' = tasks \ {t}
                   /\ admin' = IF live(t) THEN action_catch(admin, reported[1]) ELSE admin
              ELSE /\ rows' = updatedTable(t.photoId, t.payload)
                   /\ tasks' = (tasks \ {t}) \cup loadPhotos_task(t)
                   /\ admin' = IF live(t)
                               THEN awaitLoadPhotos_page([admin EXCEPT !.editingId = NULL], t)
                               ELSE admin
        /\ UNCHANGED <<objects, nextId, callerVars, now, feedVars, env, auth>>

handleSoftDelete(photoId) ==
    /\ screen(admin) = "dashboard"
    /\ shown(admin.activePhotos, photoId)
    /\ enabled(admin, photoId)
    /\ admin.events < MaxEvents
    /\ admin' = [userEvent(admin) EXCEPT !.actionPhotoId = Some(photoId)]
    /\ tasks' = tasks \cup
          {[id |-> admin.events + 1, mounts |-> admin.mounts, handler |-> "handleSoftDelete",
            at |-> "softDelete", session |-> admin.session, photoId |-> photoId,
            editingId |-> admin.editingId]}
    /\ UNCHANGED <<repoVars, now, feedVars, env, auth>>

\* softDeletePhoto settles; then loadPhotos is awaited
handleSoftDelete_softDelete ==
    \E t \in tasks, error \in {NULL} \cup {Some(m) : m \in TransportErrors} :
        /\ t.at = "softDelete"
        /\ IF error # NULL
           THEN /\ rows' = rows
                /\ tasks' = tasks \ {t}
                /\ admin' = IF live(t) THEN action_catch(admin, error[1]) ELSE admin
           ELSE /\ rows' = updatedTable(t.photoId, [deleted_at |-> Some(now)])
                /\ tasks' = (tasks \ {t}) \cup loadPhotos_task(t)
                /\ admin' = IF live(t)
                            THEN awaitLoadPhotos_page(
                                     IF t.editingId = Some(t.photoId)
                                     THEN [admin EXCEPT !.editingId = NULL] ELSE admin, t)
                            ELSE admin
        /\ UNCHANGED <<objects, nextId, callerVars, now, feedVars, env, auth>>

handleRestore(photoId) ==
    /\ screen(admin) = "dashboard"
    /\ shown(admin.trashPhotos, photoId)
    /\ enabled(admin, photoId)
    /\ admin.events < MaxEvents
    /\ admin' = [userEvent(admin) EXCEPT !.actionPhotoId = Some(photoId)]
    /\ tasks' = tasks \cup
          {[id |-> admin.events + 1, mounts |-> admin.mounts, handler |-> "handleRestore",
            at |-> "restore", session |-> admin.session, photoId |-> photoId]}
    /\ UNCHANGED <<repoVars, now, feedVars, env, auth>>

\* restorePhoto settles; then loadPhotos is awaited
handleRestore_restore ==
    \E t \in tasks, error \in {NULL} \cup {Some(m) : m \in TransportErrors} :
        /\ t.at = "restore"
        /\ IF error # NULL
           THEN /\ rows' = rows
                /\ tasks' = tasks \ {t}
                /\ admin' = IF live(t) THEN action_catch(admin, error[1]) ELSE admin
           ELSE /\ rows' = updatedTable(t.photoId, [deleted_at |-> NULL])
                /\ tasks' = (tasks \ {t}) \cup loadPhotos_task(t)
                /\ admin' = IF live(t) THEN awaitLoadPhotos_page(admin, t) ELSE admin
        /\ UNCHANGED <<objects, nextId, callerVars, now, feedVars, env, auth>>

handlePermanentDelete(photoId, shouldDelete) ==
    /\ screen(admin) = "dashboard"
    /\ shown(admin.trashPhotos, photoId)
    /\ enabled(admin, photoId)
    /\ admin.events < MaxEvents
    /\ IF ~shouldDelete
       THEN /\ admin' = userEvent(admin)
            /\ tasks' = tasks
       ELSE /\ admin' = [userEvent(admin) EXCEPT !.actionPhotoId = Some(photoId)]
            /\ tasks' = tasks \cup
                  {[id |-> admin.events + 1, mounts |-> admin.mounts,
                    handler |-> "handlePermanentDelete", at |-> "remove",
                    session |-> admin.session, photoId |-> photoId,
                    image_path |-> shownPhoto(admin.trashPhotos, photoId).image_path]}
    /\ UNCHANGED <<repoVars, now, feedVars, env, auth>>

\* permanentlyDeletePhoto: the removal settles
handlePermanentDelete_remove ==
    \E t \in tasks :
        /\ t.at = "remove"
        /\ \E o \in removeOutcomes(t.image_path) :
             /\ objects' = o.bucket
             /\ IF o.error # NULL /\ ~notFoundTest(o.error[1])
                THEN /\ tasks' = tasks \ {t}
                     /\ admin' = IF live(t) THEN action_catch(admin, o.error[1]) ELSE admin
                ELSE /\ tasks' = (tasks \ {t}) \cup {[t EXCEPT !.at = "delete"]}
                     /\ admin' = admin
        /\ UNCHANGED <<rows, nextId, callerVars, now, feedVars, env, auth>>

\* permanentlyDeletePhoto: the row delete settles; then loadPhotos is awaited
handlePermanentDelete_delete ==
    \E t \in tasks, error \in {NULL} \cup {Some(m) : m \in TransportErrors} :
        /\ t.at = "delete"
        /\ IF error # NULL
           THEN /\ rows' = rows
                /\ tasks' = tasks \ {t}
                /\ admin' = IF live(t) THEN action_catch(admin, error[1]) ELSE admin
           ELSE /\ rows' = deletedTable(t.photoId)
                /\ tasks' = (tasks \ {t}) \cup loadPhotos_task(t)
                /\ admin' = IF live(t) THEN awaitLoadPhotos_page(admin, t) ELSE admin
        /\ UNCHANGED <<objects, nextId, callerVars, now, feedVars, env, auth>>

----------------------------------------------------------------------------
(* The admin at work on a store of two photos *)

InitAdmin ==
    \E trashEvery \in {0, 2}, session \in {NULL} \cup {Some(u) : u \in UserIds} :
        /\ rows = [i \in 1..2 |-> storedRow(i, 2, "spread", trashEvery)]
        /\ objects = {storedRow(i, 2, "spread", trashEvery).image_path : i \in 1..2}
        /\ now = 2
        /\ nextId = 3
        /\ issued = <<>>
        /\ uploads = 0
        /\ call = Idle
        /\ result = NoResult
        /\ probe = NoProbe
        /\ purged = {}
        /\ feed = NoFeed
        /\ fetches = {}
        /\ env = ConfiguredEnv
        /\ requests = <<>>
        /\ auth = session
        /\ admin = NoAdmin
        /\ tasks = {}

NextAdmin ==
    \/ AdminMount
    \/ AdminUnmount
    \/ getSession_then
    \/ handleLogin
    \/ handleLogin_signIn
    \/ handleLogout
    \/ handleLogout_signOut
    \/ loadPhotos_query
    \/ loadPhotos_fulfilled
    \/ loadPhotos_rejected
    \/ \E text \in TypedTexts : typeUploadForm(text)
    \/ \E file \in FileNames : chooseFile(file)
    \/ \E token \in Tokens : handleUpload(token)
    \/ handleUpload_upload
    \/ handleUpload_insert
    \/ handleUpload_cleanup
    \/ \E photoId \in 1..nextId : beginEdit(photoId)
    \/ cancelEdit
    \/ \E text \in TypedTexts : typeEditForm(text)
    \/ saveEdit
    \/ saveEdit_update
    \/ \E photoId \in 1..nextId : handleSoftDelete(photoId)
    \/ handleSoftDelete_softDelete
    \/ \E photoId \in 1..nextId : handleRestore(photoId)
    \/ handleRestore_restore
    \/ \E photoId \in 1..nextId, shouldDelete \in BOOLEAN : handlePermanentDelete(photoId, shouldDelete)
    \/ handlePermanentDelete_remove
    \/ handlePermanentDelete_delete

SpecAdmin == InitAdmin /\ [][NextAdmin]_vars

----------------------------------------------------------------------------
(* Claims about the admin panel *)

\* C14: after any sequence of uploads and metadata edits made through the admin
\* panel, every stored photo row has a non-empty title.
C14_EveryStoredTitleIsNonEmpty ==
    \A i \in DOMAIN rows : rows[i].title # <<>>

\* the requests the panel has in flight that name a photo
photoActions == {t \in tasks : "photoId" \in DOMAIN t}

\* C19: while a softDelete request for a photo is in flight from the mounted
\* panel, that panel has issued no later action for the same photo.
C19_NoSecondActionWhileSoftDeleting ==
    \A t \in photoActions :
        (t.at = "softDelete" /\ live(t)) =>
            \A u \in photoActions :
                (u.mounts = t.mounts /\ u.id > t.id) => u.photoId # t.photoId

\* the reloads of tasks that are waiting on Promise.all
reloads(ts) == {t \in ts : t.at = "loadPhotos"}

\* reload t is waiting before the step and neither it nor a later stage of it after
settles(t) ==
    /\ t \in reloads(tasks)
    /\ ~\E u \in reloads(tasks') :
           u.id = t.id /\ u.mounts = t.mounts /\ u.handler = t.handler

\* C21: a reload touches the displayed lists only when it settles; with both
\* queries answered both lists are replaced in that one step, and with a query
\* failed neither list changes and the failed query's message is shown. The
\* arrival of one query's answer changes nothing on the page.
C21_ReloadConsumesBothOrNeither ==
    [][ \A t \in reloads(tasks) :
          live(t) =>
            IF settles(t)
            THEN IF t.active.state = "answered" /\ t.trash.state = "answered"
                 THEN /\ admin'.activePhotos = t.active.value
                      /\ admin'.trashPhotos = t.trash.value
                 ELSE /\ admin'.activePhotos = admin.activePhotos
                      /\ admin'.trashPhotos = admin.trashPhotos
                      /\ \E mode \in {"active", "trash"} :
                            /\ t[mode].state = "failed"
                            /\ admin'.photosError = Some(t[mode].message)
            ELSE t \notin tasks' => admin' = admin
      ]_vars

\* one click, on Move to trash of photo 1: the row is trashed, the reload that
\* followed has failed, and the page still lists both photos as active
C21_Witness ==
    /\ admin.mounted
    /\ admin.mounts = 1
    /\ admin.events = 1
    /\ tasks = {}
    /\ rows[1].deleted_at # NULL
    /\ Len(admin.activePhotos) = 2
    /\ admin.trashPhotos = <<>>
    /\ admin.photosError # NULL

\* the ids a displayed list holds
shownIds(list) == {list[k].id : k \in 1..Len(list)}

\* the first instance of the page is showing the dashboard, every handler and
\* every reload it started has finished, and none of them has failed
quiet ==
    /\ screen(admin) = "dashboard"
    /\ admin.mounts = 1
    /\ tasks = {}
    /\ ~admin.failed

\* C26: once every action started in the panel and every reload it triggered
\* has completed without error, the displayed active list holds exactly the
\* rows with deleted_at null and the displayed trash list exactly the others.
C26_QuietListsMatchTheStore ==
    quiet =>
        /\ shownIds(admin.activePhotos) = {i \in DOMAIN rows : rows[i].deleted_at = NULL}
        /\ shownIds(admin.trashPhotos) = {i \in DOMAIN rows : rows[i].deleted_at # NULL}

\* C27: no photo id is in both the displayed active list and the displayed
\* trash list.
C27_ListsAreDisjoint ==
    admin.mounted => shownIds(admin.activePhotos) \cap shownIds(admin.trashPhotos) = {}

----------------------------------------------------------------------------
(* The site built without its credentials *)

RepositoryOps ==
    {"fetchPublicPhotos", "fetchAdminPhotos", "uploadPhoto", "updatePhotoMetadata",
     "softDeletePhoto", "restorePhoto", "permanentlyDeletePhoto"}

\* the first statement of every exported function of photos.ts is
\* const client = getSupabaseClient(), which throws when isSupabaseConfigured is false
getSupabaseClient_throws(op) ==
    /\ call = Idle
    /\ ~isSupabaseConfigured
    /\ result' = Thrown(op, MsgNotConfigured)
    /\ requests' = <<>>
    /\ probe' = NoProbe
    /\ UNCHANGED <<rows, objects, now, nextId, issued, uploads, call, purged,
                   feedVars, adminVars, env>>

InitUnavailable ==
    \E url \in Credentials, key \in Credentials :
        /\ env = [supabaseUrl |-> url, supabaseAnonKey |-> key]
        /\ ~isSupabaseConfigured
        /\ rows = <<>>
        /\ objects = {}
        /\ now = 0
        /\ nextId = 1
        /\ issued = <<>>
        /\ uploads = 0
        /\ call = Idle
        /\ result = NoResult
        /\ probe = NoProbe
        /\ purged = {}
        /\ feed = NoFeed
        /\ fetches = {}
        /\ requests = <<>>
        /\ auth = NULL
        /\ admin = NoAdmin
        /\ tasks = {}

\* what a caller or a visitor can start; every later step of the model is the
\* settling of a request one of these has started
NextUnavailable ==
    \/ \E op \in RepositoryOps : getSupabaseClient_throws(op)
    \/ Mount
    \/ Unmount
    \/ AdminMount
    \/ AdminUnmount

SpecUnavailable == InitUnavailable /\ [][NextUnavailable]_vars

\* C16: with the endpoint or the public key absent, every repository operation
\* raises the configuration error and issues no backend request, the store is
\* left alone, the public page starts no fetch, and the admin page starts no
\* session lookup, login or logout and shows the unavailable screen.
C16_UnavailableWithoutCredentials ==
    ~isSupabaseConfigured =>
        /\ requests = <<>>
        /\ call = Idle
        /\ result # NoResult => (result.status = "thrown" /\ result.message = MsgNotConfigured)
        /\ rows = <<>> /\ objects = {}
        /\ fetches = {}
        /\ feed.mounted => ~feed.isLoading
        /\ tasks = {}
        /\ auth = NULL
        /\ admin.mounted => (screen(admin) = "unconfigured" /\ admin.sessionReady)

C16_Witness ==
    /\ env.supabaseUrl = Some(<<>>)
    /\ env.supabaseAnonKey # NULL
    /\ result = Thrown("uploadPhoto", MsgNotConfigured)
    /\ feed.mounted
    /\ admin.mounted

====
